---- MODULE Spec2Model ----
(***************************************************************************)
(* A model of the incremental dataflow runtime of Eve: the transaction     *)
(* loop (Transaction.exec, prepareRound, collapseCommits,                  *)
(* collapseMultiplicity, output, commit), the blocks it drives (Block,     *)
(* JoinNode with Scan and FunctionConstraint, OutputWrapperNode with the   *)
(* insert / remove / commit output nodes) and the interner.  The triple    *)
(* index and the distinct index live in ./indexes, which is not part of    *)
(* the sources at hand; they are modelled from their described contract.   *)
(***************************************************************************)
EXTENDS Integers, Sequences, FiniteSets, TLC

(***************************************************************************)
(* JavaScript values that are not integers.  A count is a JS number: the   *)
(* promoted commits carry +-Infinity, and Infinity + -Infinity is NaN.     *)
(* They are represented by integers no bounded run reaches otherwise.      *)
(***************************************************************************)
Infinity == 1000000000
NegInfinity == 0 - Infinity
NaN == Infinity + 1
undefined == Infinity + 2

\* a + b on JS numbers
Plus(a, b) ==
  IF a = NaN \/ b = NaN THEN NaN
  ELSE IF a = Infinity THEN (IF b = NegInfinity THEN NaN ELSE Infinity)
  ELSE IF a = NegInfinity THEN (IF b = Infinity THEN NaN ELSE NegInfinity)
  ELSE IF b = Infinity \/ b = NegInfinity THEN b
  ELSE a + b

\* a > 0 on JS numbers (NaN compares false)
Positive(a) == a # NaN /\ a > 0

\* a * b on JS numbers, for the finite operands and the signs the runtime uses
Times(a, b) ==
  IF a = NaN \/ b = NaN THEN NaN
  ELSE IF a \in {Infinity, NegInfinity} \/ b \in {Infinity, NegInfinity}
       THEN (IF a = 0 \/ b = 0 THEN NaN
             ELSE IF (a > 0) = (b > 0) THEN Infinity ELSE NegInfinity)
  ELSE a * b

Max(a, b) == IF a >= b THEN a ELSE b
Abs(a) == IF a < 0 THEN 0 - a ELSE a

RECURSIVE SetToSeq(_)
\* the elements of a finite set of integers in ascending order
SetToSeq(S) ==
  IF S = {} THEN <<>>
  ELSE LET m == CHOOSE x \in S : \A y \in S : x <= y
       IN <<m>> \o SetToSeq(S \ {m})

(***************************************************************************)
(* Interner                                                                *)
(***************************************************************************)
\* Interner._getFreeID: IDFreeList.pop() || currentID++
\* result: <<id, interner'>>
GetFreeID(I) ==
  LET n == Len(I.IDFreeList)
      popped == IF n = 0 THEN undefined ELSE I.IDFreeList[n]
      rest == IF n = 0 THEN I.IDFreeList ELSE SubSeq(I.IDFreeList, 1, n - 1)
  IN IF popped # undefined /\ popped # 0
     THEN <<popped, [I EXCEPT !.IDFreeList = rest]>>
     ELSE <<I.currentID, [I EXCEPT !.IDFreeList = rest, !.currentID = @ + 1]>>

\* The dictionaries strings and numbers and the array IDs are functions on the keys
\* that hold a value: a key set to undefined reads like a key never set.  IDs holds
\* <<"number", n>> for the number n and <<"string", s>> for the string s.
\* Interner.intern for a number; result: <<id, interner'>>
InternNumber(I, value) ==
  IF value \in DOMAIN I.numbers
  THEN LET found == I.numbers[value]
       IN <<found, [I EXCEPT !.IDRefCount[found] = @ + 1]>>
  ELSE LET g == GetFreeID(I)
           found == g[1]
           J == g[2]
       IN <<found, [J EXCEPT !.numbers = (value :> found) @@ @,
                             !.IDs = (found :> <<"number", value>>) @@ @,
                             !.IDRefCount = (found :> 1) @@ @]>>

\* Interner.intern for a string; result: <<id, interner'>>
InternString(I, value) ==
  IF value \in DOMAIN I.strings
  THEN LET found == I.strings[value]
       IN <<found, [I EXCEPT !.IDRefCount[found] = @ + 1]>>
  ELSE LET g == GetFreeID(I)
           found == g[1]
           J == g[2]
       IN <<found, [J EXCEPT !.strings = (value :> found) @@ @,
                             !.IDs = (found :> <<"string", value>>) @@ @,
                             !.IDRefCount = (found :> 1) @@ @]>>

\* Interner.get of the raw value <<type, value>>
InternerGet(I, raw) ==
  IF raw[1] = "number"
  THEN (IF raw[2] \in DOMAIN I.numbers THEN I.numbers[raw[2]] ELSE undefined)
  ELSE (IF raw[2] \in DOMAIN I.strings THEN I.strings[raw[2]] ELSE undefined)

\* Interner.reverse
Reverse(I, id) == I.IDs[id][2]

\* a release that gives the ID up at the first call, whatever its references
release_AtOnce(I, id) ==
  [I EXCEPT !.IDs = [k \in DOMAIN @ \ {id} |-> @[k]],
            !.numbers = [k \in {n \in DOMAIN @ : @[n] # id} |-> @[k]],
            !.strings = [k \in {n \in DOMAIN @ : @[n] # id} |-> @[k]],
            !.IDFreeList = Append(@, id)]

\* Interner.release; IDRefCount[id]-- of an ID that never had a count leaves NaN,
\* and !NaN holds: the ID goes to the free list
release(I, id) ==
  IF id = undefined THEN I
  ELSE LET count == IF id \in DOMAIN I.IDRefCount THEN Plus(I.IDRefCount[id], -1) ELSE NaN
           counted == [I EXCEPT !.IDRefCount = (id :> count) @@ @]
       IN IF count # 0 /\ count # NaN THEN counted
          ELSE IF id \notin DOMAIN I.IDs
          THEN [counted EXCEPT !.IDFreeList = Append(@, id)]
          ELSE IF I.IDs[id][1] = "number"
          THEN [counted EXCEPT !.numbers = [k \in DOMAIN @ \ {I.IDs[id][2]} |-> @[k]],
                               !.IDs = [k \in DOMAIN @ \ {id} |-> @[k]],
                               !.IDFreeList = Append(@, id)]
          ELSE [counted EXCEPT !.strings = [k \in DOMAIN @ \ {I.IDs[id][2]} |-> @[k]],
                               !.IDs = [k \in DOMAIN @ \ {id} |-> @[k]],
                               !.IDFreeList = Append(@, id)]

\* the interner right after construction
NewInterner ==
  [currentID |-> 0, strings |-> <<>>, numbers |-> <<>>, IDs |-> <<>>,
   IDRefCount |-> <<>>, IDFreeList |-> <<>>]

(***************************************************************************)
(* Scan fields and changes                                                 *)
(***************************************************************************)
\* IGNORE_REG: the sentinel of a field that is not constrained
IGNORE_REG == Infinity + 3

Register(offset) == [reg |-> TRUE, x |-> offset]
Static(id) == [reg |-> FALSE, x |-> id]
Ignore == [reg |-> FALSE, x |-> IGNORE_REG]
isRegister(f) == f.reg

\* new Change / RemoveChange / RemoveVsChange / RemoveAVsChange (kind names the class)
Change(kind, e, a, v, n, round, count) ==
  [kind |-> kind, e |-> e, a |-> a, v |-> v, n |-> n, round |-> round, count |-> count]

\* current instanceof RemoveChange
IsRemoveChange(c) == c.kind \in {"RemoveChange", "RemoveVsChange", "RemoveAVsChange"}
\* change instanceof RemoveVsChange
IsRemoveVsChange(c) == c.kind \in {"RemoveVsChange", "RemoveAVsChange"}

(***************************************************************************)
(* Triple index (./indexes, modelled from its contract): per (e,a,v), per  *)
(* node n and per round the cumulative count of the inserted changes.      *)
(***************************************************************************)
\* counts[round] += count
AddAt(rc, round, count) ==
  IF round \in DOMAIN rc THEN [rc EXCEPT ![round] = Plus(@, count)]
  ELSE (round :> count) @@ rc

\* index.insert(change)
IndexInsert(ix, c) ==
  LET t == <<c.e, c.a, c.v>>
  IN IF t \in DOMAIN ix
     THEN [ix EXCEPT ![t] = IF c.n \in DOMAIN @
                            THEN [@ EXCEPT ![c.n] = AddAt(@, c.round, c.count)]
                            ELSE (c.n :> (c.round :> c.count)) @@ @]
     ELSE (t :> (c.n :> (c.round :> c.count))) @@ ix

\* a field that does not constrain: IGNORE or a register not bound yet
Free(x) == x = IGNORE_REG \/ x = undefined

\* the stored (e,a,v) triples a pattern matches
MatchingTriples(ix, e, a, v) ==
  IF ~Free(e) /\ ~Free(a) /\ ~Free(v)
  THEN (IF <<e, a, v>> \in DOMAIN ix THEN {<<e, a, v>>} ELSE {})
  ELSE {t \in DOMAIN ix : /\ (Free(e) \/ t[1] = e) /\ (Free(a) \/ t[2] = a)
                          /\ (Free(v) \/ t[3] = v)}

\* the stored keys <<triple, node>> of triple t a node pattern matches
KeysOf(ix, t, n) ==
  {<<t, m>> : m \in IF Free(n) THEN DOMAIN ix[t] ELSE {n} \cap DOMAIN ix[t]}

\* the stored keys a pattern matches
MatchingKeys(ix, e, a, v, n) ==
  UNION {KeysOf(ix, t, n) : t \in MatchingTriples(ix, e, a, v)}

RECURSIVE SumSeq(_, _)
\* the JS sum of f over the sequence of arguments s
SumSeq(f, s) == IF s = <<>> THEN 0 ELSE Plus(f[Head(s)], SumSeq(f, Tail(s)))

RECURSIVE SumRounds(_, _, _)
\* the count the keys K hold at round r
SumRounds(ix, K, r) ==
  IF K = {} THEN 0
  ELSE LET k == CHOOSE x \in K : TRUE
           rc == ix[k[1]][k[2]]
       IN Plus(IF r \in DOMAIN rc THEN rc[r] ELSE 0, SumRounds(ix, K \ {k}, r))

\* the rounds at which the keys K hold a count
RoundsOf(ix, K) == UNION {DOMAIN ix[k[1]][k[2]] : k \in K}

\* the per-round counts of the keys K taken together
RoundCounts(ix, K) == [r \in RoundsOf(ix, K) |-> SumRounds(ix, K, r)]

\* the net count of the keys K over all rounds
NetCount(ix, K) ==
  LET sum(rc) == SumSeq(rc, SetToSeq(DOMAIN rc)) IN sum(RoundCounts(ix, K))

\* the stored (e,a,v) triples a pattern matches that hold net-positive
PresentTriples(ix, e, a, v, n) ==
  {t \in MatchingTriples(ix, e, a, v) : Positive(NetCount(ix, KeysOf(ix, t, n)))}

\* index.check(e, a, v, n, transaction, round)
IndexCheck(ix, e, a, v, n) == PresentTriples(ix, e, a, v, n) # {}

RECURSIVE Crossings(_, _, _)
\* the signed rounds (round + 1, negative for a retraction) at which the running
\* count of rc crosses between zero and nonzero, over the ascending rounds
Crossings(rc, rounds, cum) ==
  IF rounds = <<>> THEN <<>>
  ELSE LET r == Head(rounds)
           next == Plus(cum, rc[r])
       IN (IF cum = 0 /\ next # 0 THEN <<r + 1>>
           ELSE IF cum # 0 /\ next = 0 THEN <<0 - (r + 1)>>
           ELSE <<>>) \o Crossings(rc, Tail(rounds), next)

\* index.getDiffs(e, a, v, n)
IndexGetDiffs(ix, e, a, v, n) ==
  LET diffs(rc) == Crossings(rc, SetToSeq(DOMAIN rc), 0)
  IN diffs(RoundCounts(ix, MatchingKeys(ix, e, a, v, n)))

\* the values field f (1..4 for e, a, v, n) takes among the present matches
FieldValues(ix, e, a, v, n, f) ==
  IF f = 4
  THEN {k[2] : k \in {k \in MatchingKeys(ix, e, a, v, n) : Positive(NetCount(ix, {k}))}}
  ELSE {t[f] : t \in PresentTriples(ix, e, a, v, n)}

\* index.propose(proposal, e, a, v, n, transaction, round): the cheapest unbound
\* field and its cardinality; skip when no field is left to enumerate
IndexPropose(ix, e, a, v, n) ==
  LET fields == <<e, a, v, n>>
      cheapest(unbound, values) ==
        IF unbound = {} THEN [skip |-> TRUE, cardinality |-> 0, forFields |-> <<>>, values |-> <<>>]
        ELSE LET card(f) == Cardinality(values[f])
                 best == CHOOSE f \in unbound :
                           \A g \in unbound : card(f) < card(g) \/ (card(f) = card(g) /\ f <= g)
             IN [skip |-> FALSE, cardinality |-> card(best), forFields |-> <<best>>,
                 values |-> SetToSeq(values[best])]
  IN cheapest({f \in 1..4 : fields[f] = undefined},
              [f \in {g \in 1..4 : fields[g] = undefined} |-> FieldValues(ix, e, a, v, n, f)])

\* index.resolveProposal(proposal)
IndexResolveProposal(proposal) == proposal.values

\* index.get(e, a, v, n, transaction, round): the present triples, in key order
IndexGet(ix, e, a, v, n) ==
  LET inOrder(T) ==
        LET as(x) == SetToSeq({t[2] : t \in {t \in T : t[1] = x}})
            vs(x, y) == SetToSeq({t[3] : t \in {t \in T : t[1] = x /\ t[2] = y}})
            RECURSIVE flatV(_, _, _), flatA(_, _), flatE(_)
            flatV(x, y, s) == IF s = <<>> THEN <<>>
                              ELSE <<<<x, y, Head(s)>>>> \o flatV(x, y, Tail(s))
            flatA(x, s) == IF s = <<>> THEN <<>>
                           ELSE flatV(x, Head(s), vs(x, Head(s))) \o flatA(x, Tail(s))
            flatE(s) == IF s = <<>> THEN <<>>
                        ELSE flatA(Head(s), as(Head(s))) \o flatE(Tail(s))
        IN flatE(SetToSeq({t[1] : t \in T}))
  IN inOrder(PresentTriples(ix, e, a, v, n))

(***************************************************************************)
(* Distinct index (./indexes, modelled from its contract): per (e,a,v) and *)
(* per round the running count; a change is turned into the deltas of the  *)
(* set-semantics stream, +1 on the round where the running count becomes   *)
(* positive and -1 where it stops being positive.                          *)
(***************************************************************************)
RECURSIVE CumBefore(_, _, _)
\* the running count of rc over the rounds of the ascending sequence below r
CumBefore(rc, rounds, r) ==
  IF rounds = <<>> \/ Head(rounds) >= r THEN 0
  ELSE Plus(rc[Head(rounds)], CumBefore(rc, Tail(rounds), r))

PresenceStep(before, after) ==
  (IF Positive(after) THEN 1 ELSE 0) - (IF Positive(before) THEN 1 ELSE 0)

RECURSIVE DistinctDeltas(_, _, _, _, _, _)
\* the <<round, delta>> pairs by which the set-semantics stream of rc changes when
\* count is added at round r, over the ascending rounds k >= r
DistinctDeltas(rc, rounds, r, count, cumOld, cumNew) ==
  IF rounds = <<>> THEN <<>>
  ELSE LET k == Head(rounds)
           had == IF k \in DOMAIN rc THEN rc[k] ELSE 0
           nextOld == Plus(cumOld, had)
           nextNew == Plus(cumNew, IF k = r THEN Plus(had, count) ELSE had)
           delta == PresenceStep(cumNew, nextNew) - PresenceStep(cumOld, nextOld)
       IN (IF delta # 0 THEN <<<<k, delta>>>> ELSE <<>>)
          \o DistinctDeltas(rc, Tail(rounds), r, count, nextOld, nextNew)

\* distinctIndex.distinct(change, outputs); result: [index, outputs]
Distinct(dix, c) ==
  LET key == <<c.e, c.a, c.v>>
      rc == IF key \in DOMAIN dix THEN dix[key] ELSE <<>>
      rounds == SetToSeq({c.round} \cup {k \in DOMAIN rc : k > c.round})
      from(base) == DistinctDeltas(rc, rounds, c.round, c.count, base, base)
      result(deltas) ==
        [index |-> IF key \in DOMAIN dix THEN [dix EXCEPT ![key] = AddAt(@, c.round, c.count)]
                   ELSE (key :> (c.round :> c.count)) @@ dix,
         outputs |-> [i \in 1..Len(deltas) |->
                        Change("Change", c.e, c.a, c.v, c.n, deltas[i][1], deltas[i][2])]]
  IN result(from(CumBefore(rc, SetToSeq(DOMAIN rc), c.round)))

(***************************************************************************)
(* Prefixes: register offset o is element o + 1; the last two elements are *)
(* the round and the count.                                                *)
(***************************************************************************)
Get(prefix, offset) == prefix[offset + 1]
Set(prefix, offset, value) == [prefix EXCEPT ![offset + 1] = value]
PrefixRound(prefix) == prefix[Len(prefix) - 1]
PrefixCount(prefix) == prefix[Len(prefix)]

RECURSIVE InitialPrefix(_)
\* Block.initial: totalRegisters + 2 undefined slots, pushed one by one
InitialPrefix(totalRegisters) ==
  IF totalRegisters + 2 <= 0 THEN <<>>
  ELSE Append(InitialPrefix(totalRegisters - 1), undefined)

\* Scan.resolve / InsertNode.resolve for one field
Resolve(field, prefix) == IF isRegister(field) THEN Get(prefix, field.x) ELSE field.x

(***************************************************************************)
(* Constraints.  A scan is [type |-> "scan", e, a, v, n]; a function       *)
(* constraint is [type |-> "function", name, args, returns].  The          *)
(* registered functions are inputs of the runtime: "+" is the one the      *)
(* programs of this model use.                                             *)
(***************************************************************************)
Scan(e, a, v, n) == [type |-> "scan", e |-> e, a |-> a, v |-> v, n |-> n]
FunctionConstraint(name, args, returns) ==
  [type |-> "function", name |-> name, args |-> args, returns |-> returns]

\* new MoveConstraint(from, to): from is a register or a static ID, to a register
MoveConstraint(from, to) == [type |-> "move", from |-> from, to |-> to]

ScanFields(c) == <<c.e, c.a, c.v, c.n>>
InputFields(input) == <<input.e, input.a, input.v, input.n>>

\* Constraint.getRegisters, as the set of offsets
GetRegisters(c) ==
  IF c.type = "scan" THEN {f.x : f \in {g \in {c.e, c.a, c.v, c.n} : isRegister(g)}}
  ELSE IF c.type = "move" THEN {c.to.x}
  ELSE {c.args[i].x : i \in {j \in DOMAIN c.args : isRegister(c.args[j])}}
       \cup {c.returns[i].x : i \in {j \in DOMAIN c.returns : isRegister(c.returns[j])}}

\* Scan.isAffected (FunctionConstraint.isAffected is always none, and so is
\* MoveConstraint.isAffected in a join whose exec looks for affected constraints:
\* shouldApplyInput is set in the joins of moves only, which run downStreamExec)
IsAffected(c, input) ==
  /\ c.type = "scan"
  /\ \A f \in 1..4 :
       LET field == ScanFields(c)[f]
       IN ~(field.x # IGNORE_REG /\ ~isRegister(field) /\ field.x # InputFields(input)[f])

RECURSIVE ScanApplyInput(_, _, _, _)
\* Scan.applyInput from field f on; result: [fail, prefix]
ScanApplyInput(c, input, prefix, f) ==
  IF f > 4 THEN [fail |-> FALSE, prefix |-> prefix]
  ELSE LET field == ScanFields(c)[f]
           value == InputFields(input)[f]
       IN IF ~isRegister(field) THEN ScanApplyInput(c, input, prefix, f + 1)
          ELSE IF Get(prefix, field.x) # undefined /\ Get(prefix, field.x) # value
               THEN [fail |-> TRUE, prefix |-> prefix]
               ELSE ScanApplyInput(c, input, Set(prefix, field.x, value), f + 1)

\* the registered function `name` applied to raw values; <<>> stands for no result
Apply(name, inputs) ==
  IF name = "+" THEN <<inputs[1] + inputs[2]>> ELSE <<>>

\* FunctionConstraint.packInputs, apply and unpackOutputs (single-valued function);
\* result: [computed, outputs, interner]
Compute(c, I, prefix) ==
  LET inputs == [i \in DOMAIN c.args |-> Reverse(I, Resolve(c.args[i], prefix))]
      RECURSIVE unpack(_, _, _, _)
      unpack(computed, J, i, acc) ==
        IF i > Len(computed)
        THEN [computed |-> computed # <<>>, outputs |-> acc, interner |-> J]
        ELSE LET interned(r) == unpack(computed, r[2], i + 1, Append(acc, r[1]))
             IN interned(InternNumber(J, computed[i]))
  IN unpack(Apply(c.name, inputs), I, 1, <<>>)

\* Constraint.accept(context, prefix, transaction, round, solvingFor);
\* result: [ok, interner]
Accept(c, ix, I, prefix, solvingFor) ==
  IF c.type = "move"
  THEN [ok |-> Resolve(c.from, prefix) = undefined \/ Resolve(c.to, prefix) = undefined
               \/ Resolve(c.from, prefix) = Resolve(c.to, prefix),
        interner |-> I]
  ELSE IF GetRegisters(c) \cap solvingFor = {} THEN [ok |-> TRUE, interner |-> I]
  ELSE IF c.type = "scan"
  THEN [ok |-> IndexCheck(ix, Resolve(c.e, prefix), Resolve(c.a, prefix),
                          Resolve(c.v, prefix), Resolve(c.n, prefix)),
        interner |-> I]
  ELSE IF \E o \in GetRegisters(c) : Get(prefix, o) = undefined
  THEN [ok |-> TRUE, interner |-> I]
  ELSE LET checkResult(r) ==
             [ok |-> r.computed /\ \A i \in DOMAIN c.returns :
                                     Resolve(c.returns[i], prefix) = r.outputs[i],
              interner |-> r.interner]
       IN checkResult(Compute(c, I, prefix))

\* Constraint.acceptInput(context, input, prefix, transaction, round)
AcceptInput(c, ix, I, input, prefix) ==
  IF c.type = "scan" /\ \A f \in 1..4 :
       LET x == Resolve(ScanFields(c)[f], prefix)
       IN x = IGNORE_REG \/ InputFields(input)[f] = x
  THEN [ok |-> TRUE, interner |-> I]
  ELSE Accept(c, ix, I, prefix, GetRegisters(c))

\* _makeFunction(setup): the members of the class NewFunctionConstraint, which
\* are those of the constraints FunctionConstraint.create makes of it, but for
\* the names and the types of the arguments and returns, for apply and for state.
\* A setup holds the members it supplies; its estimate is the value its
\* estimator returns
_makeFunction(setup) ==
  [name |-> setup.name,
   variadic |-> IF "variadic" \in DOMAIN setup THEN setup.variadic ELSE FALSE,
   multi |-> IF "multi" \in DOMAIN setup THEN setup.multi ELSE FALSE]

\* FunctionConstraint.create(name, fields, restFields): a constraint of the class
\* registered under name, with the fields of its arguments and of its returns
FunctionConstraint_create(registered, name, args, returns, restFields) ==
  [type |-> "function", args |-> args, returns |-> returns,
   restFields |-> IF registered[name].variadic THEN restFields ELSE <<>>]
  @@ registered[name]

\* the test of propose on the variadic inputs: one of them is not resolved
UnresolvedRest(c, prefix) ==
  /\ "variadic" \in DOMAIN c /\ c.variadic
  /\ \E i \in DOMAIN c.restFields : Resolve(c.restFields[i], prefix) = undefined

\* Constraint.propose; result: [skip, cardinality, forRegisters, values]; a
\* function constraint has the member estimate when its class gave it one
Propose(c, ix, prefix) ==
  IF c.type = "scan"
  THEN LET proposed(p) ==
             [skip |-> p.skip \/ Len(p.forFields) = 0,
              cardinality |-> p.cardinality,
              forRegisters |-> [i \in DOMAIN p.forFields |-> ScanFields(c)[p.forFields[i]].x],
              values |-> p.values]
       IN proposed(IndexPropose(ix, Resolve(c.e, prefix), Resolve(c.a, prefix),
                                Resolve(c.v, prefix), Resolve(c.n, prefix)))
  ELSE IF c.type = "move"
  THEN [skip |-> ~(Resolve(c.from, prefix) # undefined /\ Resolve(c.to, prefix) = undefined),
        cardinality |-> 1, forRegisters |-> <<c.to.x>>, values |-> <<>>]
  ELSE LET proposed(unresolved, registers) ==
             [skip |-> unresolved = {}
                       \/ (\E i \in DOMAIN c.args : Resolve(c.args[i], prefix) = undefined)
                       \/ UnresolvedRest(c, prefix),
              cardinality |-> IF "estimate" \in DOMAIN c THEN c.estimate ELSE 1,
              forRegisters |-> [i \in DOMAIN registers |-> c.returns[registers[i]].x],
              values |-> <<>>]
       IN proposed({i \in DOMAIN c.returns : Resolve(c.returns[i], prefix) = undefined},
                   SetToSeq({j \in DOMAIN c.returns :
                               /\ Resolve(c.returns[j], prefix) = undefined
                               /\ isRegister(c.returns[j])}))

\* Constraint.resolveProposal; result: [rows, interner], a row holding the values
\* of the proposal's registers
ResolveProposal(c, I, prefix, proposal) ==
  IF c.type = "scan"
  THEN [rows |-> [i \in DOMAIN proposal.values |-> <<proposal.values[i]>>], interner |-> I]
  ELSE IF c.type = "move"
  THEN [rows |-> <<<<Resolve(c.from, prefix)>>>>, interner |-> I]
  ELSE LET row(r) ==
             [rows |-> IF r.computed
                       THEN <<[i \in DOMAIN c.returns |->
                                 IF isRegister(c.returns[i])
                                    /\ Get(prefix, c.returns[i].x) \in {undefined, 0}
                                 THEN r.outputs[i] ELSE NaN]>>
                       ELSE <<>>,
              interner |-> r.interner]
       IN row(Compute(c, I, prefix))

(***************************************************************************)
(* JoinNode.  A join is [type |-> "join", constraints]; isInput is the set *)
(* of the positions of the constraints the input change is applied to.     *)
(***************************************************************************)
\* new JoinNode(constraints): isStatic is set for a join of moves from static IDs
\* only; hasNoScans says that exec is replaced by downStreamExec
JoinNode(constraints) ==
  [type |-> "join", constraints |-> constraints,
   isStatic |-> \A i \in DOMAIN constraints :
                  constraints[i].type = "move" /\ ~isRegister(constraints[i].from),
   hasNoScans |-> \A i \in DOMAIN constraints : constraints[i].type # "scan"]

\* JoinNode.registerLookup, as the set of offsets
RegisterLookup(join) == UNION {GetRegisters(join.constraints[i]) : i \in DOMAIN join.constraints}

RECURSIVE computeMultiplicities(_, _, _, _, _)
\* JoinNode.computeMultiplicities from diffIndex on, with the round and the count
\* the prefix holds; result: the <<round, count>> pairs of the pushed results
computeMultiplicities(currentRound, diffs, diffIndex, startingRound, startingMultiplicity) ==
  IF diffIndex > Len(diffs) THEN <<<<startingRound, startingMultiplicity>>>>
  ELSE LET rounds == diffs[diffIndex]
           RECURSIVE upTo(_)
           \* the number of leading entries at or before the current round
           upTo(i) == IF i > Len(rounds) \/ Abs(rounds[i]) - 1 > currentRound THEN i - 1
                      ELSE upTo(i + 1)
           ix == upTo(1)
           RECURSIVE signs(_)
           signs(i) == IF i > ix THEN 0 ELSE (IF rounds[i] > 0 THEN 1 ELSE -1) + signs(i + 1)
           currentRoundCount == signs(1)
           RECURSIVE later(_)
           later(i) ==
             IF i > Len(rounds) THEN <<>>
             ELSE computeMultiplicities(currentRound, diffs, diffIndex + 1,
                                        Max(Abs(rounds[i]) - 1, startingRound),
                                        Times(startingMultiplicity, IF rounds[i] > 0 THEN 1 ELSE -1))
                  \o later(i + 1)
       IN (IF currentRoundCount # 0
           THEN computeMultiplicities(currentRound, diffs, diffIndex + 1,
                                      Max(currentRound, startingRound),
                                      Times(startingMultiplicity, currentRoundCount))
           ELSE <<>>) \o later(ix + 1)

\* results at the round and with the count of the input, whatever the diffs
prefixToResults_Input(join, isInput, ix, prefix, round, inputCount) ==
  <<[prefix EXCEPT ![Len(prefix) - 1] = round, ![Len(prefix)] = inputCount]>>

\* JoinNode.prefixToResults: the diffs of the scans the input is not applied to,
\* then computeMultiplicities; result: the pushed result prefixes
prefixToResults(join, isInput, ix, prefix, round, inputCount) ==
  LET scans == SetToSeq({i \in DOMAIN join.constraints :
                           i \notin isInput /\ join.constraints[i].type = "scan"})
      diffs == [i \in DOMAIN scans |->
                  LET c == join.constraints[scans[i]]
                  IN IndexGetDiffs(ix, Resolve(c.e, prefix), Resolve(c.a, prefix),
                                   Resolve(c.v, prefix), Resolve(c.n, prefix))]
      n == Len(prefix)
      results(pairs) ==
        [i \in DOMAIN pairs |-> [prefix EXCEPT ![n - 1] = pairs[i][1], ![n] = pairs[i][2]]]
  IN results(computeMultiplicities(round, diffs, 1, round, inputCount))

RECURSIVE bestProposal_from(_, _, _)
\* the loop of genericJoin over the proposals from position i on; best is the
\* position of the best proposal so far, 0 for emptyProposal
bestProposal_from(proposals, i, best) ==
  IF i > Len(proposals) THEN best
  ELSE bestProposal_from(proposals, i + 1,
                         IF /\ proposals[i].cardinality
                                 < (IF best = 0 THEN Infinity ELSE proposals[best].cardinality)
                            /\ ~proposals[i].skip
                         THEN i ELSE best)

\* a choice that takes the first proposal that is not skipped, whatever its
\* cardinality
bestProposal_First(proposals) ==
  IF \A i \in DOMAIN proposals : proposals[i].skip THEN 0
  ELSE CHOOSE i \in DOMAIN proposals :
         ~proposals[i].skip /\ \A j \in 1..(i - 1) : proposals[j].skip

\* bestProposal of genericJoin, as the position of its proposer in constraints
bestProposal(proposals) == bestProposal_from(proposals, 1, 0)

RECURSIVE genericJoin(_, _, _, _, _, _, _, _)
\* JoinNode.genericJoin; result: [results, interner]
genericJoin(join, isInput, ix, I, prefix, round, inputCount, roundIx) ==
  LET cs == join.constraints
      RECURSIVE bind(_, _, _, _)
      bind(forRegisters, row, p, k) ==
        IF k > Len(forRegisters) THEN p
        ELSE bind(forRegisters, row, Set(p, forRegisters[k], row[k]), k + 1)
      RECURSIVE accepted(_, _, _, _, _)
      \* every constraint but the proposer accepts p; result: [ok, interner]
      accepted(best, forRegisters, p, J, i) ==
        IF i > Len(cs) THEN [ok |-> TRUE, interner |-> J]
        ELSE IF i = best THEN accepted(best, forRegisters, p, J, i + 1)
        ELSE LET then(r) == IF r.ok THEN accepted(best, forRegisters, p, r.interner, i + 1)
                            ELSE [ok |-> FALSE, interner |-> r.interner]
             IN then(Accept(cs[i], ix, J, p, {forRegisters[k] : k \in DOMAIN forRegisters}))
      RECURSIVE rows(_, _, _, _, _, _)
      rows(best, forRegisters, resolved, k, J, acc) ==
        IF k > Len(resolved) THEN [results |-> acc, interner |-> J]
        ELSE LET recurse(g) == rows(best, forRegisters, resolved, k + 1, g.interner,
                                    acc \o g.results)
                 row(p, r) ==
                   IF ~r.ok THEN rows(best, forRegisters, resolved, k + 1, r.interner, acc)
                   ELSE IF roundIx = 1
                   THEN rows(best, forRegisters, resolved, k + 1, r.interner,
                             acc \o prefixToResults(join, isInput, ix, p, round, inputCount))
                   ELSE recurse(genericJoin(join, isInput, ix, r.interner, p, round,
                                            inputCount, roundIx - 1))
                 bound(p) == row(p, accepted(best, forRegisters, p, J, 1))
             IN bound(bind(forRegisters, resolved[k], prefix, 1))
      solve(best, forRegisters, resolved) ==
        rows(best, forRegisters, resolved.rows, 1, resolved.interner, <<>>)
      choose(proposals, best) ==
        solve(best, proposals[best].forRegisters,
              ResolveProposal(cs[best], I, prefix, proposals[best]))
      join1(proposals, best) ==
        IF (\E i \in DOMAIN cs : ~proposals[i].skip /\ proposals[i].cardinality = 0) \/ best = 0
        THEN [results |-> <<>>, interner |-> I]
        ELSE choose(proposals, best)
      proposed(proposals) == join1(proposals, bestProposal(proposals))
  IN proposed([i \in DOMAIN cs |-> Propose(cs[i], ix, prefix)])

\* JoinNode.applyCombination (with presolveCheck);
\* result: [results, interner, didSomething]
applyCombination(join, isInput, ix, I, input, prefix, round, inputCount) ==
  LET cs == join.constraints
      countOfSolved == Cardinality({o \in RegisterLookup(join) : Get(prefix, o) # undefined})
      remainingToSolve == Cardinality(RegisterLookup(join)) - countOfSolved
      RECURSIVE presolveCheck(_, _)
      presolveCheck(J, i) ==
        IF i > Len(cs) THEN [ok |-> TRUE, interner |-> J]
        ELSE LET then(r) == IF r.ok THEN presolveCheck(r.interner, i + 1)
                            ELSE [ok |-> FALSE, interner |-> r.interner]
             IN then(AcceptInput(cs[i], ix, J, input, prefix))
      joined(r) == [results |-> r.results, interner |-> r.interner, didSomething |-> TRUE]
      solve(valid) ==
        IF ~valid.ok
        THEN [results |-> <<>>, interner |-> valid.interner, didSomething |-> FALSE]
        ELSE IF remainingToSolve = 0
        THEN [results |-> prefixToResults(join, isInput, ix, prefix, round, inputCount),
              interner |-> valid.interner, didSomething |-> TRUE]
        ELSE joined(genericJoin(join, isInput, ix, valid.interner, prefix, round, inputCount,
                                remainingToSolve))
  IN solve(presolveCheck(I, 1))

\* JoinNode.unapplyConstraint for every affected constraint
unapplyConstraints(join, affected, prefix) ==
  LET regs == UNION {GetRegisters(join.constraints[affected[k]]) : k \in DOMAIN affected}
      RECURSIVE cleared(_)
      cleared(i) ==
        IF i = 0 THEN <<>>
        ELSE Append(cleared(i - 1), IF (i - 1) \in regs THEN undefined ELSE prefix[i])
  IN cleared(Len(prefix))

\* combinations that include every affected constraint, whatever comboIx
Included_Every(affected, comboIx) == DOMAIN affected

\* the affected constraints combination comboIx includes (bit k - 1 of comboIx)
Included(affected, comboIx) ==
  {k \in DOMAIN affected : (comboIx \div (2 ^ (k - 1))) % 2 = 1}

\* the two changes a BlockChangeTransaction sends through the blocks; no change
\* of the runs has the ID 0 in all of e, a, v and n, so that input === BLOCK_ADD
\* is the equality of the records
BLOCK_REMOVE == Change("Change", 0, 0, 0, 0, 0, -1)
BLOCK_ADD == Change("Change", 0, 0, 0, 0, 0, 1)

\* JoinNode.exec and, for a join without scans, JoinNode.downStreamExec, which
\* the constructor puts in its place: downStreamExec and the BLOCK_REMOVE and
\* BLOCK_ADD branches of exec are one applyCombination on the prefix as it is, an
\* ordinary input of exec is one per combination of the affected constraints;
\* dormant is the flag of the join; result: [results, interner, dormant]
JoinNode_exec(join, dormant, ix, I, input, prefix0, round) ==
  LET cs == join.constraints
      \* findAffectedConstraints
      affected == SetToSeq({i \in DOMAIN cs : IsAffected(cs[i], input)})
      whole == join.hasNoScans \/ input \in {BLOCK_REMOVE, BLOCK_ADD}
      inputCount == IF join.hasNoScans /\ PrefixCount(prefix0) # undefined
                    THEN PrefixCount(prefix0) ELSE input.count
      inputRound == IF ~join.hasNoScans THEN round
                    ELSE IF PrefixRound(prefix0) # undefined THEN PrefixRound(prefix0)
                    ELSE input.round
      RECURSIVE apply(_, _, _)
      \* applyInput of the included constraints in order; result: [fail, prefix]
      apply(inc, p, k) ==
        IF k > Len(affected) THEN [fail |-> FALSE, prefix |-> p]
        ELSE IF k \notin inc THEN apply(inc, p, k + 1)
        ELSE LET r == ScanApplyInput(cs[affected[k]], input, p, 1)
             IN IF r.fail THEN r ELSE apply(inc, r.prefix, k + 1)
      RECURSIVE combos(_, _, _, _, _)
      combos(comboIx, p, J, acc, didSomething) ==
        IF comboIx <= 0
        THEN [results |-> acc, interner |-> J,
              dormant |-> dormant \/ (join.isStatic /\ didSomething)]
        ELSE LET inc == IF whole THEN {} ELSE Included(affected, comboIx)
                 next(a, r) ==
                   combos(comboIx - 1,
                          IF whole THEN a.prefix ELSE unapplyConstraints(join, affected, a.prefix),
                          r.interner, acc \o r.results, didSomething \/ r.didSomething)
                 applied(a) ==
                   next(a, IF a.fail
                           THEN [results |-> <<>>, interner |-> J, didSomething |-> FALSE]
                           ELSE applyCombination(join, {affected[k] : k \in inc}, ix, J, input,
                                                 a.prefix, inputRound, inputCount))
             IN applied(apply(inc, p, 1))
  IN IF join.isStatic /\ dormant /\ (join.hasNoScans \/ input # BLOCK_REMOVE)
     THEN [results |-> <<>>, interner |-> I, dormant |-> dormant]
     ELSE combos(IF whole THEN 1 ELSE 2 ^ Len(affected) - 1, prefix0, I, <<>>, FALSE)

(***************************************************************************)
(* Transaction.output, Transaction.commit and the output nodes.  The part  *)
(* of the transaction and of its context a block writes while it runs is   *)
(* the record S: [distinctIndex, roundChanges, frameCommits,               *)
(* framePartialCommits, interner, queued, threw].  roundChanges[r + 1] is  *)
(* the array of round r (<<>> for a hole of the sparse array); queued      *)
(* counts the changes sitting in round queues that no prepareRound has     *)
(* taken yet; threw says that a node has thrown.                           *)
(***************************************************************************)
\* round queues that do not take the change
PushRound_Lost(rcs, out) == rcs

\* roundChanges[output.round].push(output)
PushRound(rcs, out) ==
  IF out.round + 1 <= Len(rcs) THEN [rcs EXCEPT ![out.round + 1] = Append(@, out)]
  ELSE rcs \o [i \in 1..(out.round - Len(rcs)) |-> <<>>] \o <<<<out>>>>

\* Transaction.output(context, change)
output(S, change) ==
  LET RECURSIVE push(_, _, _)
      push(rcs, outputs, i) == IF i > Len(outputs) THEN rcs
                               ELSE push(PushRound(rcs, outputs[i]), outputs, i + 1)
      queue(d) == [S EXCEPT !.distinctIndex = d.index,
                            !.roundChanges = push(@, d.outputs, 1),
                            !.queued = @ + Len(d.outputs),
                            !.emitted = @ \o d.outputs]
  IN queue(Distinct(S.distinctIndex, change))

\* Transaction.commit(context, change)
commit(S, change) ==
  IF IsRemoveVsChange(change)
  THEN [S EXCEPT !.framePartialCommits = Append(@, change)]
  ELSE [S EXCEPT !.frameCommits = Append(@, change)]

\* the output nodes: [type, e, a, v, n] with type one of "InsertNode",
\* "CommitInsertNode", "RemoveNode", "CommitRemoveNode"
OutputNode(type, e, a, v, n) == [type |-> type, e |-> e, a |-> a, v |-> v, n |-> n]
OutputWrapperNode(nodes) == [type |-> "output", nodes |-> nodes]

IsCommitNode(node) == node.type \in {"CommitInsertNode", "CommitRemoveNode"}
IsRemoveNode(node) == node.type \in {"RemoveNode", "CommitRemoveNode"}

\* a change made in the round of its prefix
ChangeRound_Same(prefixRound) == prefixRound

\* prefixRound + 1, the round of the change an output node or a watch node makes
ChangeRound(prefixRound) == prefixRound + 1

\* InsertNode.exec / RemoveNode.exec on one prefix;
\* result: [threw, emitted, change]
OutputNode_exec(node, prefix) ==
  LET e == Resolve(node.e, prefix)
      a == Resolve(node.a, prefix)
      v == Resolve(node.v, prefix)
      n == Resolve(node.n, prefix)
      round == ChangeRound(PrefixRound(prefix))
  IN IF IsRemoveNode(node)
     THEN IF e = undefined \/ a = undefined \/ (v = undefined /\ node.v.x # IGNORE_REG)
             \/ n = undefined
          THEN [threw |-> FALSE, emitted |-> FALSE, change |-> <<>>]
          ELSE [threw |-> FALSE, emitted |-> TRUE,
                change |-> Change(IF node.v.x # IGNORE_REG THEN "RemoveChange"
                                  ELSE IF node.a.x # IGNORE_REG THEN "RemoveVsChange"
                                  ELSE "RemoveAVsChange",
                                  e, a, v, n, round, Times(PrefixCount(prefix), -1))]
     ELSE IF e = undefined \/ a = undefined \/ v = undefined \/ n = undefined
          THEN [threw |-> TRUE, emitted |-> FALSE, change |-> <<>>]
          ELSE [threw |-> FALSE, emitted |-> TRUE,
                change |-> Change("Change", e, a, v, n, round, Times(PrefixCount(prefix), 1))]

\* OutputWrapperNode.exec on one prefix
OutputWrapperNode_exec(wrapper, S, prefix) ==
  LET RECURSIVE doBinds(_, _, _, _), doCommits(_, _, _, _)
      doBinds(outs, binds, T, k) ==
        IF k > Len(binds) THEN T
        ELSE doBinds(outs, binds, output(T, outs[binds[k]].change), k + 1)
      doCommits(outs, commits, T, k) ==
        IF k > Len(commits) THEN T
        ELSE doCommits(outs, commits, commit(T, outs[commits[k]].change), k + 1)
      run(outs) ==
        IF \E i \in DOMAIN outs : outs[i].threw THEN [S EXCEPT !.threw = TRUE]
        ELSE doCommits(outs,
                       SetToSeq({i \in DOMAIN outs :
                                   outs[i].emitted /\ IsCommitNode(wrapper.nodes[i])}),
                       doBinds(outs,
                               SetToSeq({i \in DOMAIN outs :
                                           outs[i].emitted /\ ~IsCommitNode(wrapper.nodes[i])}),
                               S, 1),
                       1)
  IN run([i \in DOMAIN wrapper.nodes |-> OutputNode_exec(wrapper.nodes[i], prefix)])

\* new WatchNode(e, a, v, n, blockId)
WatchNode(e, a, v, n, blockId) ==
  [type |-> "watch", e |-> e, a |-> a, v |-> v, n |-> n, blockId |-> blockId]

\* WatchNode.exec on one prefix, with the transaction.export it ends in; the
\* exported change has the round after the prefix's and the prefix's count
WatchNode_exec(node, S, prefix) ==
  LET e == Resolve(node.e, prefix)
      a == Resolve(node.a, prefix)
      v == Resolve(node.v, prefix)
      n == Resolve(node.n, prefix)
      change == Change("Change", e, a, v, n, ChangeRound(PrefixRound(prefix)),
                      PrefixCount(prefix))
      export(exportedChanges) ==
        IF node.blockId \in DOMAIN exportedChanges
        THEN [exportedChanges EXCEPT ![node.blockId] = Append(@, change)]
        ELSE (node.blockId :> <<change>>) @@ exportedChanges
  IN IF e = undefined \/ a = undefined \/ v = undefined \/ n = undefined
     THEN [S EXCEPT !.threw = TRUE]
     ELSE [S EXCEPT !.exportedChanges = export(@)]

(***************************************************************************)
(* Block                                                                   *)
(***************************************************************************)
Block(name, nodes, totalRegisters) ==
  [name |-> name, nodes |-> nodes, totalRegisters |-> totalRegisters]

\* Node.exec on one prefix; result: [S, results]
Node_exec(node, S, ix, input, prefix, round) ==
  IF node.type = "join"
  THEN LET joined(r) ==
             [S |-> [S EXCEPT !.interner = r.interner,
                              !.dormant = IF r.dormant THEN @ \cup {node} ELSE @],
              results |-> r.results]
       IN joined(JoinNode_exec(node, node \in S.dormant, ix, S.interner, input, prefix, round))
  ELSE IF node.type = "watch"
  THEN [S |-> WatchNode_exec(node, S, prefix), results |-> <<prefix>>]
  ELSE [S |-> OutputWrapperNode_exec(node, S, prefix), results |-> <<>>]

\* Block.exec(context, input, transaction); a throw leaves what was written before it
Block_exec(block, S0, ix, input, round) ==
  LET RECURSIVE prefixes(_, _, _, _)
      \* node on the prefixes of iter from k on; result: [S, results]
      prefixes(node, S, iter, k) ==
        IF k > Len(iter) \/ S.threw THEN [S |-> S, results |-> <<>>]
        ELSE LET both(r, rest) == [S |-> rest.S, results |-> r.results \o rest.results]
                 then(r) == both(r, prefixes(node, r.S, iter, k + 1))
             IN then(Node_exec(node, S, ix, input, iter[k], round))
      RECURSIVE nodes(_, _, _)
      nodes(S, iter, i) ==
        IF i > Len(block.nodes) \/ S.threw THEN S
        ELSE LET then(r) == nodes(r.S, r.results, i + 1)
             IN then(prefixes(block.nodes[i], S, iter, 1))
  IN nodes(S0, <<InitialPrefix(block.totalRegisters)>>, 1)

(***************************************************************************)
(* Transaction.  T is the record of the transaction and of the part of its *)
(* context it writes: the fields of S and round, changes, lastFrame; frame *)
(* counts the commit promotions; committed and promoted hold the commits   *)
(* prepareRound collapsed last and what they collapsed to.                 *)
(* Array.prototype.sort is taken to be stable.                             *)
(***************************************************************************)
\* a.x - b.x of a sort comparator (null counts as 0)
Diff(x, y) == (IF x = IGNORE_REG THEN 0 ELSE x) - (IF y = IGNORE_REG THEN 0 ELSE y)

\* the comparator of collapseMultiplicity: by e, a, v
CompareEAV(x, y) ==
  IF Diff(x.e, y.e) # 0 THEN Diff(x.e, y.e)
  ELSE IF Diff(x.a, y.a) # 0 THEN Diff(x.a, y.a)
  ELSE Diff(x.v, y.v)

\* the comparator of collapseCommits: by n, e, a, v
CompareNEAV(x, y) == IF Diff(x.n, y.n) # 0 THEN Diff(x.n, y.n) ELSE CompareEAV(x, y)

RECURSIVE InsertSorted(_, _, _)
\* x put into the sorted sequence s after every element that is not greater
InsertSorted(byNode, s, x) ==
  IF s = <<>> THEN <<x>>
  ELSE IF (IF byNode THEN CompareNEAV(Head(s), x) ELSE CompareEAV(Head(s), x)) <= 0
       THEN <<Head(s)>> \o InsertSorted(byNode, Tail(s), x)
       ELSE <<x>> \o s

\* the changes left in the order they have
Sort_Unsorted(byNode, changes, k) == SubSeq(changes, 1, k)

RECURSIVE Sort(_, _, _)
\* changes.sort(comparator), from the k-th element on into the sorted sequence acc
Sort(byNode, changes, k) ==
  IF k = 0 THEN <<>>
  ELSE InsertSorted(byNode, Sort(byNode, changes, k - 1), changes[k])

\* groups of one change: nothing is merged
GroupEnd_Single(byNode, sorted, i) == i

RECURSIVE GroupEnd(_, _, _)
\* the index of the last change of the group of sorted[i]
GroupEnd(byNode, sorted, i) ==
  IF i + 1 <= Len(sorted)
     /\ (~byNode \/ sorted[i + 1].n = sorted[i].n)
     /\ sorted[i + 1].e = sorted[i].e /\ sorted[i + 1].a = sorted[i].a
     /\ sorted[i + 1].v = sorted[i].v
  THEN GroupEnd(byNode, sorted, i + 1)
  ELSE i

RECURSIVE GroupCount(_, _, _)
\* current.count += next.count over the group sorted[i..j]
GroupCount(sorted, i, j) ==
  IF i = j THEN sorted[i].count ELSE Plus(GroupCount(sorted, i, j - 1), sorted[j].count)

\* Transaction.collapseMultiplicity(changes, results); result: [changes, results],
\* changes as the call leaves the array (sorted, the counts of a group added
\* into its first change) and the changes pushed onto results
collapseMultiplicity(changes) ==
  LET RECURSIVE walk(_, _, _)
      walk(arr, res, i) ==
        IF i > Len(arr) THEN [changes |-> arr, results |-> res]
        ELSE LET merged(j, current) ==
                   walk(IF j = i THEN arr ELSE [arr EXCEPT ![i] = current],
                        IF current.count # 0 THEN Append(res, current) ELSE res, j + 1)
                 group(j) == merged(j, [arr[i] EXCEPT !.count = GroupCount(arr, i, j)])
             IN group(GroupEnd(FALSE, arr, i))
  IN walk(IF Len(changes) <= 1 THEN changes ELSE Sort(FALSE, changes, Len(changes)), <<>>, 1)

\* Transaction.collapseCommits(changes, results); result: [changes, results]
collapseCommits(changes) ==
  LET RECURSIVE walk(_, _, _)
      walk(sorted, res, i) ==
        IF i > Len(sorted) THEN [changes |-> sorted, results |-> res]
        ELSE LET currentType == IsRemoveChange(sorted[i])
                 merged(j, count) ==
                   walk(sorted,
                        IF (currentType /\ count # NaN /\ count < 0)
                           \/ (~currentType /\ Positive(count))
                        THEN Append(res, Change(IF currentType THEN "RemoveChange" ELSE "Change",
                                                sorted[i].e, sorted[i].a, sorted[i].v,
                                                sorted[i].n, 0, count))
                        ELSE res,
                        j + 1)
                 group(j) == merged(j, GroupCount(sorted, i, j))
             IN group(GroupEnd(TRUE, sorted, i))
  IN walk(IF Len(changes) <= 1 THEN changes ELSE Sort(TRUE, changes, Len(changes)), <<>>, 1)

\* RemoveVsChange.toRemoveChanges / RemoveAVsChange.toRemoveChanges: the pushed changes
toRemoveChanges(c, ix) ==
  LET RECURSIVE perRound(_, _, _), perMatch(_, _)
      perRound(m, rounds, k) ==
        IF k > Len(rounds) THEN <<>>
        ELSE <<Change("RemoveChange", m[1], m[2], m[3], c.n,
                      Max(c.round, Abs(rounds[k]) - 1),
                      Times(c.count, IF rounds[k] > 0 THEN 1 ELSE -1))>>
             \o perRound(m, rounds, k + 1)
      perMatch(matches, k) ==
        IF k > Len(matches) THEN <<>>
        ELSE perRound(matches[k],
                      IndexGetDiffs(ix, matches[k][1], matches[k][2], matches[k][3], IGNORE_REG), 1)
             \o perMatch(matches, k + 1)
  IN perMatch(IndexGet(ix, c.e, IF c.kind = "RemoveAVsChange" THEN IGNORE_REG ELSE c.a,
                       IGNORE_REG, IGNORE_REG), 1)

\* a loop over the rounds that starts one round late
FirstRound_Skip(T) == T.round + 2

\* the first round prepareRound looks at: ix = this.round + 1
FirstRound(T) == T.round + 1

\* a test of the commits that does not look at the next change
CommitsPending_Early(hasNext, T) == T.frameCommits # <<>> \/ T.framePartialCommits # <<>>

\* the condition under which prepareRound collapses the commits of the frame
CommitsPending(hasNext, T) ==
  ~hasNext /\ (T.frameCommits # <<>> \/ T.framePartialCommits # <<>>)

RECURSIVE prepareRound(_, _, _)
\* Transaction.prepareRound(context, changeIx)
prepareRound(T, ix, changeIx) ==
  LET hasNext == changeIx < Len(T.changes)
      maxRound == Len(T.roundChanges)
      RECURSIVE rounds(_, _)
      \* the loop over the rounds from r on; result: [T, returned]
      rounds(U, r) ==
        IF r >= maxRound THEN [T |-> U, returned |-> FALSE]
        ELSE IF U.roundChanges[r + 1] = <<>> THEN rounds(U, r + 1)
        ELSE LET taken(cm, V) == IF cm.results # <<>> THEN [T |-> V, returned |-> TRUE]
                                 ELSE rounds(V, r + 1)
                 collapsed(cm) ==
                   taken(cm, [U EXCEPT !.roundChanges[r + 1] = cm.changes,
                                       !.changes = @ \o cm.results,
                                       !.queued = @ - Len(cm.changes)])
             IN collapsed(collapseMultiplicity(U.roundChanges[r + 1]))
      RECURSIVE expand(_, _, _)
      expand(partial, commits, k) ==
        IF k > Len(partial) THEN commits
        ELSE expand(partial, commits \o toRemoveChanges(partial[k], ix), k + 1)
      RECURSIVE promote(_, _, _)
      promote(collapsedChanges, V, k) ==
        IF k > Len(collapsedChanges) THEN V
        ELSE LET c == collapsedChanges[k]
                 count == IF Positive(c.count) THEN Infinity
                          ELSE IF c.count # NaN /\ c.count < 0 THEN NegInfinity ELSE c.count
             IN promote(collapsedChanges, output(V, [c EXCEPT !.count = count]), k + 1)
      commits(U, frameCommits, collapsedCommits, collapsedChanges) ==
        IF collapsedChanges # <<>>
        THEN prepareRound(promote(collapsedChanges,
                                  [U EXCEPT !.lastFrame = Len(U.changes),
                                            !.round = -1,
                                            !.roundChanges = <<>>,
                                            !.frameCommits = <<>>,
                                            !.framePartialCommits = <<>>,
                                            !.queued = 0,
                                            !.emitted = <<>>,
                                            !.frame = @ + 1,
                                            !.committed = frameCommits,
                                            !.promoted = collapsedChanges], 1),
                          ix, changeIx)
        ELSE [U EXCEPT !.frameCommits = collapsedCommits.changes,
                       !.committed = frameCommits,
                       !.promoted = collapsedChanges]
      collapse(U, frameCommits, collapsedCommits) ==
        commits(U, frameCommits, collapsedCommits,
                collapseMultiplicity(collapsedCommits.results).results)
      expanded(U, frameCommits) == collapse(U, frameCommits, collapseCommits(frameCommits))
      opened(o) ==
        IF o.returned THEN o.T
        ELSE IF CommitsPending(hasNext, o.T)
        THEN expanded(o.T, expand(o.T.framePartialCommits, o.T.frameCommits, 1))
        ELSE o.T
  IN opened(IF ~hasNext /\ T.round < maxRound THEN rounds(T, FirstRound(T))
            ELSE [T |-> T, returned |-> FALSE])

(***************************************************************************)
(* Intermediate indexes of the binary flows.  A key is the tuple of the    *)
(* values of the key registers (the code joins them with "|" into a        *)
(* string); an IntermediateIndex maps a key to its values in the order of  *)
(* their first insertion, each [prefix, counts] with counts[r + 1] the     *)
(* count of round r (counts[0] of the code is the prefix); a               *)
(* KeyOnlyIntermediateIndex maps a key to counts alone.  A hole of a       *)
(* counts array is 0: the code reads both as "no count".                   *)
(***************************************************************************)
\* IntermediateIndex.CreateKeyFunction(registers) applied to a prefix
CreateKeyFunction(registers, prefix) == [i \in DOMAIN registers |-> Get(prefix, registers[i].x)]

\* IntermediateIndex.hashPrefix: the prefix without its round and count
hashPrefix(prefix) == SubSeq(prefix, 1, Len(prefix) - 2)

\* counts[i] = count + (counts[i] || 0) on an array that grows to hold position i
AddCount(counts, i, count) ==
  [k \in 1..Max(Len(counts), i) |->
     (IF k <= Len(counts) THEN counts[k] ELSE 0) + (IF k = i THEN count ELSE 0)]

\* the sequence s without its element i
RemoveAt(s, i) == SubSeq(s, 1, i - 1) \o SubSeq(s, i + 1, Len(s))

\* the function f without the key k
Without(f, k) == [x \in DOMAIN f \ {k} |-> f[x]]

RECURSIVE SumFrom(_, _, _)
\* counts[i] + ... + counts[j], positions outside the array counting 0
SumFrom(counts, i, j) ==
  IF i > j THEN 0
  ELSE (IF i \in DOMAIN counts THEN counts[i] ELSE 0) + SumFrom(counts, i + 1, j)

\* IntermediateIndex.insert(key, prefix)
IntermediateIndex_insert(index, key, prefix) ==
  LET values == IF key \in DOMAIN index THEN index[key] ELSE <<>>
      at == {i \in DOMAIN values : hashPrefix(values[i].prefix) = hashPrefix(prefix)}
      i == IF at = {} THEN Len(values) + 1 ELSE CHOOSE k \in at : TRUE
      round == PrefixRound(prefix) + 1
      put == IF at = {}
             THEN Append(values, [prefix |-> prefix,
                                  counts |-> AddCount(<<>>, round, PrefixCount(prefix))])
             ELSE [values EXCEPT ![i].counts = AddCount(@, round, PrefixCount(prefix))]
      shouldRemove == \A k \in DOMAIN put[i].counts : put[i].counts[k] = 0
  IN (key :> (IF shouldRemove THEN RemoveAt(put, i) ELSE put)) @@ index

RECURSIVE IntermediateIndexIterator(_, _, _, _)
\* the prefixes IntermediateIndexIterator.next() returns after reset(values,
\* minRound - 1) until it returns undefined, each with the round and the count
\* the iterator holds then; valueIx and countIx are the fields of the iterator
IntermediateIndexIterator(values, minRound, valueIx, countIx) ==
  IF valueIx > Len(values) THEN <<>>
  ELSE LET counts == values[valueIx].counts
           from == countIx + 1
           found == {k \in from..Len(counts) : counts[k] # 0}
           first == IF found = {} THEN Len(counts) + 1
                    ELSE CHOOSE k \in found : \A j \in found : k <= j
           count == IF from < minRound THEN SumFrom(counts, from, minRound)
                    ELSE IF found = {} THEN 0 ELSE counts[first]
           at == IF from < minRound THEN minRound ELSE first
       IN IF from >= Len(counts) + 1
          THEN IntermediateIndexIterator(values, minRound, valueIx + 1, 0)
          ELSE (IF count = 0 THEN <<>>
                ELSE <<[prefix |-> values[valueIx].prefix, round |-> at - 1, count |-> count]>>)
               \o IntermediateIndexIterator(values, minRound, valueIx, at)

\* IntermediateIndex.iter(key, round), run to its end; no iterator and an iterator
\* without values both give no prefix
IntermediateIndex_iter(index, key, round) ==
  IF key \in DOMAIN index THEN IntermediateIndexIterator(index[key], round + 1, 1, 0) ELSE <<>>

\* KeyOnlyIntermediateIndex.insert(key, prefix)
KeyOnlyIntermediateIndex_insert(index, key, prefix) ==
  LET put == AddCount(IF key \in DOMAIN index THEN index[key] ELSE <<>>,
                      PrefixRound(prefix) + 1, PrefixCount(prefix))
  IN IF \A k \in DOMAIN put : put[k] = 0 THEN Without(index, key)
     ELSE (key :> put) @@ index

RECURSIVE ZeroingIterator(_, _, _, _)
\* the <<round, count>> pairs ZeroingIterator.next() gives after reset(counts,
\* minRound) until it returns undefined; roundIx and countSum are the fields of
\* the iterator, counts[r + 1] is the count of round r
ZeroingIterator(counts, minRound, roundIx, countSum) ==
  LET from == roundIx + 1
      sum(i) == countSum + SumFrom(counts, from + 1, i + 1)
      countsLength == IF from <= minRound /\ minRound >= Len(counts) THEN minRound + 1
                      ELSE Len(counts)
      hits == IF from <= minRound
              THEN {i \in from..(countsLength - 1) : i >= minRound /\ sum(i) = 0}
              ELSE {i \in from..countsLength :
                      /\ i + 1 \in DOMAIN counts
                      /\ counts[i + 1] # 0
                      /\ \/ countSum = 0 /\ sum(i) > 0
                         \/ countSum > 0 /\ sum(i) = 0}
      final == CHOOSE i \in hits : \A j \in hits : i <= j
  IN IF from >= Len(counts) \/ hits = {} THEN <<>>
     ELSE <<<<final, IF sum(final) # 0 THEN -1 ELSE 1>>>>
          \o ZeroingIterator(counts, minRound, final, sum(final))

\* KeyOnlyIntermediateIndex.iter(key, round), run to its end (there is no iterator
\* without the key)
KeyOnlyIntermediateIndex_iter(index, key, round) ==
  IF key \in DOMAIN index THEN ZeroingIterator(index[key], round, -1, 0) ELSE <<>>

(***************************************************************************)
(* Binary flows.  The state of a BinaryJoinRight is [leftIndex,            *)
(* rightIndex]; that of an AntiJoinPresolvedRight is [join, leftIndex,     *)
(* rightIndex, distinct], join being the state of the binary join on its   *)
(* left; the right of the antijoin is the choose that made it, whose       *)
(* results it is handed.  The right of a binary join is a join node.       *)
(***************************************************************************)
\* new BinaryJoinRight(left, right, keyRegisters, registersToMerge)
BinaryJoinRight(left, right, keyRegisters, registersToMerge) ==
  [type |-> "binary", left |-> left, right |-> right, keyRegisters |-> keyRegisters,
   registersToMerge |-> registersToMerge]

\* new AntiJoinPresolvedRight(left, right, keyRegisters), right being the choose
AntiJoinPresolvedRight(left, keyRegisters) ==
  [type |-> "antijoin", left |-> left, keyRegisters |-> keyRegisters]

\* the indexes of a flow node when it is made
NewFlowState(node) ==
  IF node.type = "binary" THEN [leftIndex |-> <<>>, rightIndex |-> <<>>]
  ELSE [join |-> [leftIndex |-> <<>>, rightIndex |-> <<>>],
        leftIndex |-> <<>>, rightIndex |-> <<>>, distinct |-> <<>>]

\* a prefix with another round and count
WithRoundCount(prefix, round, count) ==
  [prefix EXCEPT ![Len(prefix) - 1] = round, ![Len(prefix)] = count]

\* a merge that takes the values of the right whatever the left holds
merge_Any(node, left, right, k) ==
  [ok |-> TRUE,
   prefix |-> [i \in DOMAIN left |->
                 IF \E j \in DOMAIN node.registersToMerge : node.registersToMerge[j].x = i - 1
                 THEN right[i] ELSE left[i]]]

RECURSIVE merge(_, _, _, _)
\* BinaryJoinRight.merge(left, right) from register k of registersToMerge on;
\* result: [ok, prefix], prefix being left as the merge leaves it
merge(node, left, right, k) ==
  IF k > Len(node.registersToMerge) THEN [ok |-> TRUE, prefix |-> left]
  ELSE LET offset == node.registersToMerge[k].x
       IN IF Get(left, offset) = undefined \/ Get(left, offset) = Get(right, offset)
          THEN merge(node, Set(left, offset, Get(right, offset)), right, k + 1)
          ELSE [ok |-> FALSE, prefix |-> left]

RECURSIVE Merged(_, _, _, _, _)
\* the results of the loop of onLeft (stored on the right) or of onRight over
\* the prefixes diffs gives
Merged(node, prefix, diffs, onLeft, k) ==
  IF k > Len(diffs) THEN <<>>
  ELSE LET d == diffs[k]
           m == IF onLeft THEN merge(node, prefix, d.prefix, 1)
                ELSE merge(node, d.prefix, prefix, 1)
       IN (IF m.ok
           THEN <<WithRoundCount(m.prefix, Max(PrefixRound(prefix), d.round),
                                 PrefixCount(prefix) * d.count)>>
           ELSE <<>>)
          \o Merged(node, prefix, diffs, onLeft, k + 1)

\* an onLeft that does not keep the prefix in the left index
BinaryJoinRight_onLeft_Unkept(node, st, prefix, round) ==
  [state |-> st,
   results |-> Merged(node, prefix,
                      IntermediateIndex_iter(st.rightIndex,
                                             CreateKeyFunction(node.keyRegisters, prefix), round),
                      TRUE, 1)]

\* BinaryJoinRight.onLeft; result: [state, results]
BinaryJoinRight_onLeft(node, st, prefix, round) ==
  LET key == CreateKeyFunction(node.keyRegisters, prefix)
  IN [state |-> [st EXCEPT !.leftIndex = IntermediateIndex_insert(@, key, prefix)],
      results |-> Merged(node, prefix, IntermediateIndex_iter(st.rightIndex, key, round),
                         TRUE, 1)]

\* BinaryJoinRight.onRight; result: [state, results]
BinaryJoinRight_onRight(node, st, prefix, round) ==
  LET key == CreateKeyFunction(node.keyRegisters, prefix)
  IN [state |-> [st EXCEPT !.rightIndex = IntermediateIndex_insert(@, key, prefix)],
      results |-> Merged(node, prefix, IntermediateIndex_iter(st.leftIndex, key, round),
                         FALSE, 1)]

RECURSIVE BinaryJoinRight_each(_, _, _, _, _, _)
\* onLeft (or onRight) on the prefixes of an iterator from k on
BinaryJoinRight_each(node, st, iter, onLeft, round, k) ==
  IF k > Len(iter) THEN [state |-> st, results |-> <<>>]
  ELSE LET both(r, rest) == [state |-> rest.state, results |-> r.results \o rest.results]
           then(r) == both(r, BinaryJoinRight_each(node, r.state, iter, onLeft, round, k + 1))
       IN then(IF onLeft THEN BinaryJoinRight_onLeft(node, st, iter[k], round)
               ELSE BinaryJoinRight_onRight(node, st, iter[k], round))

\* BinaryJoinRight.exec: the right node runs on the prefix and gives rightResults,
\* then onLeft takes the results the left node holds and onRight those of the
\* right node; result: [state, results]
BinaryJoinRight_exec(node, st, leftResults, rightResults, round) ==
  LET both(l, r) == [state |-> r.state, results |-> l.results \o r.results]
      rights(l) == both(l, BinaryJoinRight_each(node, l.state, rightResults, FALSE, round, 1))
  IN rights(BinaryJoinRight_each(node, st, leftResults, TRUE, round, 1))

\* distinct.distinctKey(key, round, count, results) of ./indexes; result:
\* [index, outputs], outputs the <<round, delta>> pairs
distinctKey(dix, key, round, count) ==
  LET rc == IF key \in DOMAIN dix THEN dix[key] ELSE <<>>
      rounds == SetToSeq({round} \cup {k \in DOMAIN rc : k > round})
      from(base) == DistinctDeltas(rc, rounds, round, count, base, base)
  IN [index |-> (key :> AddAt(rc, round, count)) @@ dix,
      outputs |-> from(CumBefore(rc, SetToSeq(DOMAIN rc), round))]

\* an onLeft that emits the prefix whatever the right index holds
AntiJoin_onLeft_Always(node, st, prefix) ==
  [state |-> [st EXCEPT !.leftIndex =
                IntermediateIndex_insert(@, CreateKeyFunction(node.keyRegisters, prefix), prefix)],
   results |-> <<prefix>>]

\* AntiJoin.onLeft; result: [state, results]
AntiJoin_onLeft(node, st, prefix) ==
  LET key == CreateKeyFunction(node.keyRegisters, prefix)
      diffs == KeyOnlyIntermediateIndex_iter(st.rightIndex, key, PrefixRound(prefix))
  IN [state |-> [st EXCEPT !.leftIndex = IntermediateIndex_insert(@, key, prefix)],
      results |-> IF key \notin DOMAIN st.rightIndex THEN <<prefix>>
                  ELSE [k \in DOMAIN diffs |->
                          WithRoundCount(prefix, diffs[k][1], diffs[k][2] * PrefixCount(prefix))]]

\* AntiJoin.onRight; result: [state, results]
AntiJoin_onRight(node, st, prefix) ==
  LET key == CreateKeyFunction(node.keyRegisters, prefix)
      diffs == IntermediateIndex_iter(st.leftIndex, key, PrefixRound(prefix))
      RECURSIVE negate(_, _, _)
      \* the inner loop for the right delta i, from the left prefix k on
      negate(neue, i, k) ==
        IF i > Len(neue) THEN <<>>
        ELSE IF k > Len(diffs) THEN negate(neue, i + 1, 1)
        ELSE <<WithRoundCount(diffs[k].prefix, Max(diffs[k].round, neue[i][1]),
                              neue[i][2] * diffs[k].count * (-1))>>
             \o negate(neue, i, k + 1)
      then(d) ==
        [state |-> [st EXCEPT !.rightIndex = KeyOnlyIntermediateIndex_insert(@, key, prefix),
                              !.distinct = d.index],
         results |-> IF key \notin DOMAIN st.leftIndex THEN <<>> ELSE negate(d.outputs, 1, 1)]
  IN then(distinctKey(st.distinct, key, PrefixRound(prefix), PrefixCount(prefix)))

RECURSIVE AntiJoin_each(_, _, _, _, _)
\* onLeft (or onRight) on the prefixes of an iterator from k on
AntiJoin_each(node, st, iter, onLeft, k) ==
  IF k > Len(iter) THEN [state |-> st, results |-> <<>>]
  ELSE LET both(r, rest) == [state |-> rest.state, results |-> r.results \o rest.results]
           then(r) == both(r, AntiJoin_each(node, r.state, iter, onLeft, k + 1))
       IN then(IF onLeft THEN AntiJoin_onLeft(node, st, iter[k])
               ELSE AntiJoin_onRight(node, st, iter[k]))

\* AntiJoinPresolvedRight.exec: the binary join on the left runs (joined are the
\* results of its right node), its results go through onLeft, and the results
\* the right node, the choose, holds already (rightResults) go through onRight;
\* leftResults are the results the left of the binary join holds;
\* result: [state, results]
AntiJoinPresolvedRight_exec(node, st, leftResults, joined, rightResults, round) ==
  LET both(l, r) == [state |-> r.state, results |-> l.results \o r.results]
      rights(l) == both(l, AntiJoin_each(node, l.state, rightResults, FALSE, 1))
      lefts(j) == rights(AntiJoin_each(node, [st EXCEPT !.join = j.state], j.results, TRUE, 1))
  IN lefts(BinaryJoinRight_exec(node.left, st.join, leftResults, joined, round))

(***************************************************************************)
(* ChooseFlow.  The state of a choose is the sequence of the states of its *)
(* branches.                                                               *)
(***************************************************************************)
RECURSIVE AllKeys(_)
\* allKeys of the constructor: the key registers of all the branches, each offset once
AllKeys(keys) ==
  IF keys = <<>> THEN <<>>
  ELSE LET rest == AllKeys(SubSeq(keys, 1, Len(keys) - 1))
           key == keys[Len(keys)]
       IN IF \E i \in DOMAIN rest : rest[i].x = key.x THEN rest ELSE Append(rest, key)

RECURSIVE Flatten(_)
Flatten(seqs) == IF seqs = <<>> THEN <<>> ELSE Head(seqs) \o Flatten(Tail(seqs))

\* a constructor that wraps no branch in an antijoin, as that of UnionFlow
ChooseFlow_Union(left, initialBranches, keyRegisters, registersToMerge, extraOuterJoins) ==
  [type |-> "choose", left |-> left,
   branches |->
     [b \in DOMAIN initialBranches |->
        BinaryJoinRight(left, initialBranches[b], keyRegisters[b] \o extraOuterJoins,
                        registersToMerge)]]

\* new ChooseFlow(left, initialBranches, keyRegisters, registersToMerge, extraOuterJoins)
ChooseFlow(left, initialBranches, keyRegisters, registersToMerge, extraOuterJoins) ==
  [type |-> "choose", left |-> left,
   branches |->
     [b \in DOMAIN initialBranches |->
        LET join == BinaryJoinRight(left, initialBranches[b],
                                    keyRegisters[b] \o extraOuterJoins, registersToMerge)
        IN IF b > 1 THEN AntiJoinPresolvedRight(join, AllKeys(Flatten(keyRegisters)))
           ELSE join]]

\* the state of a choose when it is made
NewChooseState(node) == [b \in DOMAIN node.branches |-> NewFlowState(node.branches[b])]

RECURSIVE JoinNode_over(_, _, _, _, _, _, _)
\* the results of join.exec on each prefix of iter from k on, a sequence per prefix
JoinNode_over(join, ix, I, input, iter, round, k) ==
  IF k > Len(iter) THEN <<>>
  ELSE <<JoinNode_exec(join, FALSE, ix, I, input, iter[k], round).results>>
       \o JoinNode_over(join, ix, I, input, iter, round, k + 1)

\* the branches of a choose run a second time, on the left prefixes
RunsAgain(branch, input) ==
  branch.keyRegisters # <<>> /\ input \notin {BLOCK_ADD, BLOCK_REMOVE}

RECURSIVE ChooseFlow_joins(_, _, _, _, _, _, _, _)
\* what the join nodes of a choose give in one exec: the left node on the prefix
\* (first element), then for each branch from b on the right node of its binary
\* join on the prefix and on the left prefixes the branch is run on again
ChooseFlow_joins(node, ix, I, input, prefix, round, b, acc) ==
  IF b > Len(node.branches) THEN acc
  ELSE LET branch == IF b = 0 THEN node ELSE node.branches[b]
           join == IF b = 0 THEN node.left
                   ELSE IF branch.type = "antijoin" THEN branch.left.right ELSE branch.right
           then(rs) == ChooseFlow_joins(node, ix, I, input, prefix, round, b + 1,
                                        Append(acc, IF b = 0 THEN rs[1] ELSE rs))
       IN then(JoinNode_over(join, ix, I, input,
                             <<prefix>> \o (IF b > 0 /\ RunsAgain(branch, input)
                                            THEN acc[1] ELSE <<>>),
                             round, 1))

\* ChooseFlow.exec; result: [state, results, branchResults], branchResults[b]
\* being what branch b added to the results.  The join nodes (the left node and
\* the right nodes of the binary joins) keep no state, so that their results are
\* computed first (ChooseFlow_joins): joined[1] holds those of the left node and
\* joined[b + 1][k] those of the right node of branch b in its k-th run
ChooseFlow_exec(node, st0, ix, I, input, prefix, round) ==
  LET RECURSIVE runs(_, _, _, _, _)
      \* node.exec of branch b from its k-th run on: the first is on the prefix of
      \* the choose, while the left node and the choose hold their results, the
      \* others are on the left prefixes, while both hold none
      runs(b, bst, joined, held, k) ==
        IF k > Len(joined[b + 1]) THEN [state |-> bst, results |-> <<>>]
        ELSE LET both(r, rest) == [state |-> rest.state, results |-> r.results \o rest.results]
                 then(r) == both(r, runs(b, r.state, joined, held, k + 1))
                 leftResults == IF k = 1 THEN joined[1] ELSE <<>>
                 rightResults == IF k = 1 THEN held ELSE <<>>
             IN then(IF node.branches[b].type = "antijoin"
                     THEN AntiJoinPresolvedRight_exec(node.branches[b], bst, leftResults,
                                                      joined[b + 1][k], rightResults, round)
                     ELSE BinaryJoinRight_exec(node.branches[b], bst, leftResults,
                                               joined[b + 1][k], round))
      RECURSIVE branches(_, _, _, _, _)
      branches(b, st, joined, results, by) ==
        IF b > Len(node.branches)
        THEN [state |-> st, results |-> results, branchResults |-> by]
        ELSE LET then(r) == branches(b + 1, [st EXCEPT ![b] = r.state], joined,
                                     results \o r.results, Append(by, r.results))
             IN then(runs(b, st[b], joined, results, 1))
  IN branches(1, st0, ChooseFlow_joins(node, ix, I, input, prefix, round, 0, <<>>), <<>>, <<>>)

(***************************************************************************)
(* UnionFlow.  The state of a union is [branches, iterators, leftResults]: *)
(* the states of its binary joins, the arrays of the two Iterator objects  *)
(* exec reads as left.results, namely the results of the left node         *)
(* ("results") and the emptyResults of the union ("emptyResults"), and the *)
(* one of the two that left.results refers to.                             *)
(***************************************************************************)
\* new UnionFlow(left, branches, keyRegisters, registersToMerge, extraOuterJoins)
UnionFlow(left, branches, keyRegisters, registersToMerge, extraOuterJoins) ==
  [type |-> "union", left |-> left,
   branches |->
     [b \in DOMAIN branches |->
        BinaryJoinRight(left, branches[b], keyRegisters[b] \o extraOuterJoins,
                        registersToMerge)]]

\* the state of a union when it is made
NewUnionState(node) ==
  [branches |-> [b \in DOMAIN node.branches |-> NewFlowState(node.branches[b])],
   iterators |-> [results |-> <<>>, emptyResults |-> <<>>],
   leftResults |-> "results"]

\* a union that leaves left.results as it is while a branch runs again
emptyResults_Kept(held) == held

\* left.results = this.emptyResults: the iterator left.results refers to while a
\* branch runs on the left prefixes, held being the one it referred to
emptyResults(held) == "emptyResults"

\* UnionFlow.exec; result: [state, results].  The join nodes keep no state, so
\* that their results are computed first, as for a choose (ChooseFlow_joins):
\* joined[1] holds the results of the one run of the left node, which clear and
\* exec leave in the iterator left.results refers to, and joined[b + 1][k] those
\* of the right node of branch b in its k-th run
UnionFlow_exec(node, st0, ix, I, input, prefix, round) ==
  LET tempLeftResults == st0.leftResults
      RECURSIVE runs(_, _, _, _)
      \* node.exec of branch b from its k-th run on: the first is on the prefix of
      \* the union, the others are on the left prefixes; left.results is set to
      \* emptyResults after the first and back to tempLeftResults after the last
      runs(b, st, joined, k) ==
        IF k > Len(joined[b + 1])
        THEN [state |-> [st EXCEPT !.leftResults = tempLeftResults], results |-> <<>>]
        ELSE LET both(r, rest) == [state |-> rest.state, results |-> r.results \o rest.results]
                 then(r) ==
                   both(r, runs(b, [st EXCEPT !.branches[b] = r.state,
                                              !.leftResults = IF k = 1 THEN emptyResults(@)
                                                              ELSE @],
                                joined, k + 1))
             IN then(BinaryJoinRight_exec(node.branches[b], st.branches[b],
                                          st.iterators[st.leftResults], joined[b + 1][k],
                                          round))
      RECURSIVE branches(_, _, _, _)
      branches(b, st, joined, results) ==
        IF b > Len(node.branches) THEN [state |-> st, results |-> results]
        ELSE LET then(r) == branches(b + 1, r.state, joined, results \o r.results)
             IN then(runs(b, st, joined, 1))
      left(joined) ==
        branches(1, [st0 EXCEPT !.iterators[st0.leftResults] = joined[1]], joined, <<>>)
  IN left(ChooseFlow_joins(node, ix, I, input, prefix, round, 0, <<>>))

(***************************************************************************)
(* Aggregates.  The state of an aggregate node holds, for every group, the *)
(* counts of its projections by round and the array of its result states   *)
(* by round.  A result state is an object: the array holds references      *)
(* (positions of heap, 0 for undefined or a hole) and two rounds may hold  *)
(* the same object.  add, remove, getResult and newResultState belong to   *)
(* the subclasses, which keep a rolling state object {result}: add and     *)
(* remove change the object they are given and return it.                  *)
(***************************************************************************)
Min(a, b) == IF a <= b THEN a ELSE b

\* AggregateNode.constructor; registerLookup holds the offsets of the group and
\* result registers
AggregateNode(name, groupRegisters, projectRegisters, inputs, resultRegisters) ==
  [type |-> "AggregateNode", name |-> name, groupRegisters |-> groupRegisters,
   projectRegisters |-> projectRegisters, inputs |-> inputs,
   resultRegisters |-> resultRegisters,
   registerLookup |-> {groupRegisters[i].x : i \in DOMAIN groupRegisters}
                        \cup {resultRegisters[i].x : i \in DOMAIN resultRegisters}]

\* the fields groups of a new node, and the objects made so far
NewAggregateState == [groups |-> <<>>, heap |-> <<>>]

\* the subclass's newResultState()
newResultState(name) == [result |-> 0]

\* the subclass's add(state, resolved): count adds one, sum adds its input
Aggregate_add(name, state, resolved) ==
  [state EXCEPT !.result = @ + (IF name = "sum" THEN resolved[1] ELSE 1)]

\* the subclass's remove(state, resolved)
Aggregate_remove(name, state, resolved) ==
  [state EXCEPT !.result = @ - (IF name = "sum" THEN resolved[1] ELSE 1)]

\* the subclass's getResult(state)
getResult(name, state) == state.result

\* array[i] = value on an array that grows to hold position i (holes read 0)
SetSlot(array, i, value) ==
  LET RECURSIVE filled(_)
      filled(k) == IF k = 0 THEN <<>>
                   ELSE Append(filled(k - 1),
                               IF k = i THEN value ELSE IF k <= Len(array) THEN array[k] ELSE 0)
  IN filled(Max(Len(array), i))

\* AggregateNode.groupPrefix; result: the delta, the groups, and whether it threw
groupPrefix(node, groups, group, prefix) ==
  LET projection == CreateKeyFunction(node.projectRegisters, prefix)
      prefixRound == PrefixRound(prefix)
      prefixCount == PrefixCount(prefix)
      found == IF group \in DOMAIN groups THEN groups[group]
               ELSE [counts |-> <<>>, result |-> <<>>]
      counts == IF projection \in DOMAIN found.counts THEN found.counts[projection] ELSE <<>>
      totalCount == SumFrom(counts, 1, prefixRound + 1)
      delta == IF totalCount # 0 /\ totalCount + prefixCount <= 0 THEN -1
               ELSE IF totalCount = 0 /\ totalCount + prefixCount > 0 THEN 1
               ELSE 0
      thrown == delta = 0 /\ totalCount + prefixCount < 0
      counted == [found EXCEPT !.counts = (projection :> AddCount(counts, prefixRound + 1,
                                                                   prefixCount)) @@ @]
  IN [delta |-> delta, thrown |-> thrown,
      groups |-> (group :> (IF thrown THEN found ELSE counted)) @@ groups]

\* AggregateNode.getResultPrefix
getResultPrefix(node, prefix, result, count) ==
  LET RECURSIVE neue(_)
      neue(i) ==
        IF i = 0 THEN <<>>
        ELSE Append(neue(i - 1),
                    IF i = Len(prefix) THEN count
                    ELSE IF i = Len(prefix) - 1 THEN prefix[i]
                    ELSE IF (i - 1) \notin node.registerLookup THEN undefined
                    ELSE IF i - 1 = node.resultRegisters[1].x THEN result
                    ELSE prefix[i])
  IN neue(Len(prefix))

\* AggregateNode.resolve: the raw values of the inputs
Aggregate_resolve(node, I, prefix) ==
  [i \in DOMAIN node.inputs |->
     Reverse(I, IF isRegister(node.inputs[i]) THEN Get(prefix, node.inputs[i].x)
                ELSE node.inputs[i].x)]

\* the most recent result state before prefixRound, 0 without one: the loop of
\* exec that copies every state it passes and keeps the last copy
RECURSIVE MostRecent(_, _)
MostRecent(groupStates, len) ==
  IF len = 0 THEN 0
  ELSE IF groupStates[len] # 0 THEN groupStates[len]
  ELSE MostRecent(groupStates, len - 1)

RECURSIVE AggregateNode_forward(_, _, _, _, _, _, _)
\* the loop of exec over the rounds ix..len-1 (positions ix+1..len of the array);
\* acc holds the result states, the heap, the interner and the results
AggregateNode_forward(node, acc, prefix, resolved, delta, ix, len) ==
  IF ix >= len THEN acc
  ELSE LET current == acc.groupStates[ix + 1]
           prefixRound == PrefixRound(prefix)
           prev == InternNumber(acc.interner, getResult(node.name, acc.heap[current]))
           state == IF delta < 0 THEN Aggregate_remove(node.name, acc.heap[current], resolved)
                    ELSE Aggregate_add(node.name, acc.heap[current], resolved)
           neue == InternNumber(prev[2], getResult(node.name, state))
       IN IF current = 0
          THEN AggregateNode_forward(node, acc, prefix, resolved, delta, ix + 1, len)
          ELSE AggregateNode_forward(
                 node,
                 [groupStates |-> SetSlot(acc.groupStates, prefixRound + 1, current),
                  heap |-> [acc.heap EXCEPT ![current] = state],
                  interner |-> neue[2],
                  results |-> acc.results
                                \o <<getResultPrefix(node, prefix, prev[1], -1),
                                     getResultPrefix(node, prefix, neue[1], 1)>>],
                 prefix, resolved, delta, ix + 1, len)

\* AggregateNode.exec; result: the state of the node, the interner, the prefixes
\* pushed to results, the value returned and whether it threw
AggregateNode_exec(node, st, I, prefix) ==
  LET group == CreateKeyFunction(node.groupRegisters, prefix)
      prefixRound == PrefixRound(prefix)
      grouped == groupPrefix(node, st.groups, group, prefix)
      delta == grouped.delta
      groupStates == grouped.groups[group].result
      had == IF prefixRound + 1 <= Len(groupStates) THEN groupStates[prefixRound + 1] ELSE 0
      recent == MostRecent(groupStates, Min(Len(groupStates), prefixRound))
      \* copyHash makes a new object with the fields of the most recent state
      copied == had = 0 /\ recent # 0
      heap1 == IF copied THEN Append(st.heap, st.heap[recent]) ELSE st.heap
      currentState == IF had # 0 THEN had ELSE IF copied THEN Len(heap1) ELSE 0
      resolved == Aggregate_resolve(node, I, prefix)
      first == LET state == IF delta < 0
                            THEN Aggregate_remove(node.name, newResultState(node.name), resolved)
                            ELSE Aggregate_add(node.name, newResultState(node.name), resolved)
                   cur == InternNumber(I, getResult(node.name, state))
               IN [groupStates |-> SetSlot(groupStates, prefixRound + 1, Len(heap1) + 1),
                   heap |-> Append(heap1, state), interner |-> cur[2],
                   results |-> <<getResultPrefix(node, prefix, cur[1], 1)>>]
      kept == [groupStates |-> SetSlot(groupStates, prefixRound + 1, currentState),
               heap |-> heap1, interner |-> I, results |-> <<>>]
      start == IF currentState = 0 THEN prefixRound + 1 ELSE prefixRound
      from == IF currentState = 0 THEN first ELSE kept
      done == AggregateNode_forward(node, from, prefix, resolved, delta, start,
                                    Max(Len(from.groupStates), prefixRound + 1))
  IN IF grouped.thrown \/ delta = 0
     THEN [state |-> [st EXCEPT !.groups = grouped.groups], interner |-> I, results |-> <<>>,
           returned |-> FALSE, thrown |-> grouped.thrown]
     ELSE [state |-> [groups |-> [grouped.groups EXCEPT ![group].result = done.groupStates],
                      heap |-> done.heap],
           interner |-> done.interner, results |-> done.results, returned |-> TRUE,
           thrown |-> FALSE]

(***************************************************************************)
(* Sort.  The state of a sort node holds, for every group, the counts of   *)
(* its projections by round and the array of its result states by round.   *)
(* A result state is {sorted, sortLookup}; add and remove splice its       *)
(* sorted array in place and copyHash copies the reference to it, so the   *)
(* array of result states holds references to sorted arrays (positions of  *)
(* heap, 0 for undefined or a hole).  Raw values are <<type, value>>.      *)
(***************************************************************************)
\* SortNode.constructor
SortNode(groupRegisters, projectRegisters, directions, resultRegisters) ==
  [type |-> "SortNode", groupRegisters |-> groupRegisters,
   projectRegisters |-> projectRegisters, directions |-> directions,
   resultRegisters |-> resultRegisters, sortRegisters |-> groupRegisters \o projectRegisters]

\* the strings of the model that JavaScript converts to a number when it compares
\* them with a number
NumericStrings == {"1"}

\* the strings of the model in the order of their code units
Alphabetical == <<"1", "down", "up">>

\* JavaScript's a > b on raw values: two strings compare by code units, anything
\* else as numbers, and a string that is not a number compares false
JsGreater(a, b) ==
  LET numeric(x) == x[1] = "number" \/ x[2] \in NumericStrings
      number(x) == IF x[1] = "number" THEN x[2] ELSE 1
      place(x) == CHOOSE i \in DOMAIN Alphabetical : Alphabetical[i] = x[2]
  IN IF a[1] = "string" /\ b[1] = "string" THEN place(a) > place(b)
     ELSE numeric(a) /\ numeric(b) /\ number(a) > number(b)

\* SortNode.resolve: the sort registers of the prefix, every other slot undefined
Sort_resolve(node, prefix) ==
  LET offsets == {node.sortRegisters[i].x : i \in DOMAIN node.sortRegisters}
      RECURSIVE resolved(_)
      resolved(i) == IF i = 0 THEN <<>>
                     ELSE Append(resolved(i - 1),
                                 IF (i - 1) \in offsets THEN prefix[i] ELSE undefined)
  IN resolved(Len(prefix))

\* SortNode.resolve: resolvedDirections, the raw values of the directions
resolvedDirections(node, I, prefix) ==
  [i \in DOMAIN node.directions |->
     I.IDs[IF isRegister(node.directions[i]) THEN Get(prefix, node.directions[i].x)
           ELSE node.directions[i].x]]

RECURSIVE isGreater_from(_, _, _, _, _, _, _)
\* the loop of isGreater from project register k on, with direction dir
isGreater_from(node, I, dirs, a, b, k, dir) ==
  IF k > Len(node.projectRegisters) THEN FALSE
  ELSE LET offset == node.projectRegisters[k].x
           aV == I.IDs[Get(a, offset)]
           bV == I.IDs[Get(b, offset)]
       IN IF (dir = "up" /\ JsGreater(aV, bV)) \/ (dir = "down" /\ JsGreater(bV, aV)) THEN TRUE
          ELSE IF aV # bV THEN FALSE
          ELSE isGreater_from(node, I, dirs, a, b, k + 1,
                              IF k + 1 \in DOMAIN dirs THEN dirs[k + 1][2] ELSE dir)

\* an isGreater that sorts every register upwards, whatever its direction
isGreater_Up(node, I, dirs, a, b) == isGreater_from(node, I, <<>>, a, b, 1, "up")

\* SortNode.isGreater(a, b): whether it returns a direction rather than false
isGreater(node, I, dirs, a, b) ==
  isGreater_from(node, I, dirs, a, b, 1, IF 1 \in DOMAIN dirs THEN dirs[1][2] ELSE "up")

\* SortNode.resultPrefix; result: <<prefix, interner>>
resultPrefix(I, prefix, outOffset, pos, round, count) ==
  LET RECURSIVE item(_, _)
      item(i, rank) == IF i = 0 THEN <<>>
                       ELSE Append(item(i - 1, rank),
                                   IF i = Len(prefix) THEN count
                                   ELSE IF i = Len(prefix) - 1 THEN round
                                   ELSE IF i - 1 = outOffset THEN rank
                                   ELSE prefix[i])
      interned(rank) == <<item(Len(prefix), rank[1]), rank[2]>>
  IN interned(InternNumber(I, pos + 1))

RECURSIVE Sort_moved(_, _, _, _, _, _)
\* the second loops of add and remove over the items of acc.sorted from position
\* ix (0-based) on: each leaves rank ix + shift + 1 and takes rank ix + 1; acc
\* holds the sorted array, the interner and the results
Sort_moved(node, acc, ix, shift, round, outOffset) ==
  IF ix >= Len(acc.sorted) THEN acc
  ELSE LET cur == acc.sorted[ix + 1]
           inserted(retract, insert) ==
             Sort_moved(node, [sorted |-> acc.sorted, interner |-> insert[2],
                               results |-> acc.results \o <<retract[1], insert[1]>>],
                        ix + 1, shift, round, outOffset)
           retracted(retract) ==
             inserted(retract, resultPrefix(retract[2], cur, outOffset, ix, round, 1))
       IN retracted(resultPrefix(acc.interner, cur, outOffset, ix + shift, round, -1))

RECURSIVE Sort_firstGreater(_, _, _, _, _, _)
\* the first loop of add: the position of the first item greater than resolved
Sort_firstGreater(node, I, dirs, sorted, resolved, ix) ==
  IF ix >= Len(sorted) \/ isGreater(node, I, dirs, sorted[ix + 1], resolved) THEN ix
  ELSE Sort_firstGreater(node, I, dirs, sorted, resolved, ix + 1)

RECURSIVE Sort_firstEqual(_, _, _)
\* the first loop of remove: the position of the first item prefixEqual to resolved
Sort_firstEqual(sorted, resolved, ix) ==
  IF ix >= Len(sorted) \/ sorted[ix + 1] = resolved THEN ix
  ELSE Sort_firstEqual(sorted, resolved, ix + 1)

\* SortNode.add; result: the sorted array, the interner and the results pushed
SortNode_add(node, I, dirs, sorted, resolved, round) ==
  LET outOffset == node.resultRegisters[1].x
      pushed(ix, neue) ==
        Sort_moved(node,
                   [sorted |-> SubSeq(sorted, 1, ix) \o <<resolved>>
                                 \o SubSeq(sorted, ix + 1, Len(sorted)),
                    interner |-> neue[2], results |-> <<neue[1]>>],
                   ix + 1, -1, round, outOffset)
      at(ix) == pushed(ix, resultPrefix(I, resolved, outOffset, ix, round, 1))
  IN at(Sort_firstGreater(node, I, dirs, sorted, resolved, 0))

\* SortNode.remove
SortNode_remove(node, I, dirs, sorted, resolved, round) ==
  LET outOffset == node.resultRegisters[1].x
      pushed(ix, gone) ==
        Sort_moved(node,
                   [sorted |-> SubSeq(sorted, 1, ix) \o SubSeq(sorted, ix + 2, Len(sorted)),
                    interner |-> gone[2], results |-> <<gone[1]>>],
                   ix, 1, round, outOffset)
      at(ix) == pushed(ix, resultPrefix(I, resolved, outOffset, ix, round, -1))
  IN at(Sort_firstEqual(sorted, resolved, 0))

\* op(state, resolved, round, results) of exec: add for a positive delta
Sort_op(node, I, dirs, sorted, resolved, round, delta) ==
  IF delta < 0 THEN SortNode_remove(node, I, dirs, sorted, resolved, round)
  ELSE SortNode_add(node, I, dirs, sorted, resolved, round)

RECURSIVE SortNode_forward(_, _, _, _, _, _, _)
\* the loop of exec over the rounds ix..len-1; acc holds the result states, the
\* heap, the interner and the results
SortNode_forward(node, acc, prefix, dirs, delta, ix, len) ==
  IF ix >= len THEN acc
  ELSE LET current == acc.groupStates[ix + 1]
           then(o) ==
             SortNode_forward(
               node,
               [groupStates |-> SetSlot(acc.groupStates, PrefixRound(prefix) + 1, current),
                heap |-> [acc.heap EXCEPT ![current] = o.sorted],
                interner |-> o.interner, results |-> acc.results \o o.results],
               prefix, dirs, delta, ix + 1, len)
       IN IF current = 0
          THEN SortNode_forward(node, acc, prefix, dirs, delta, ix + 1, len)
          ELSE then(Sort_op(node, acc.interner, dirs, acc.heap[current],
                            Sort_resolve(node, prefix), ix, delta))

\* SortNode.exec; result: the state of the node, the interner, the prefixes
\* pushed to results, the value returned and whether it threw.  groupPrefix is
\* the same code as AggregateNode.groupPrefix.  Without a state at or before the
\* round of the prefix, op runs on newResultState(), a new sorted array, at that
\* round, and then on the states of the rounds after it.
SortNode_exec(node, st, I, prefix) ==
  LET group == CreateKeyFunction(node.groupRegisters, prefix)
      prefixRound == PrefixRound(prefix)
      finished(grouped, done) ==
        IF grouped.thrown \/ grouped.delta = 0
        THEN [state |-> [st EXCEPT !.groups = grouped.groups], interner |-> I,
              results |-> <<>>, returned |-> FALSE, thrown |-> grouped.thrown]
        ELSE [state |-> [groups |-> [grouped.groups EXCEPT ![group].result = done.groupStates],
                         heap |-> done.heap],
              interner |-> done.interner, results |-> done.results, returned |-> TRUE,
              thrown |-> FALSE]
      started(grouped, groupStates, currentState) ==
        finished(grouped,
                 SortNode_forward(
                   node,
                   [groupStates |-> SetSlot(groupStates, prefixRound + 1,
                                            IF currentState = 0 THEN Len(st.heap) + 1
                                            ELSE currentState),
                    heap |-> IF currentState = 0 THEN Append(st.heap, <<>>) ELSE st.heap,
                    interner |-> I, results |-> <<>>],
                   prefix, resolvedDirections(node, I, prefix), grouped.delta, prefixRound,
                   IF grouped.thrown \/ grouped.delta = 0 THEN 0
                   ELSE Max(Len(groupStates), prefixRound + 1)))
      found(grouped, groupStates) ==
        started(grouped, groupStates,
                IF prefixRound + 1 <= Len(groupStates) /\ groupStates[prefixRound + 1] # 0
                THEN groupStates[prefixRound + 1]
                ELSE MostRecent(groupStates, Min(Len(groupStates), prefixRound)))
      counted(grouped) == found(grouped, grouped.groups[group].result)
  IN counted(groupPrefix(node, st.groups, group, prefix))

(***************************************************************************)
(* Programs and inputs.  The raw values below are interned, in this order, *)
(* when the programs are compiled and the context is set up; the compiled  *)
(* blocks and the input changes hold their IDs.                            *)
(***************************************************************************)
Strings == <<"eve", "edge", "a1", "a2", "a3", "tick", "count", "next", "seed", "input",
             "tc", "copy", "faulty", "insert", "remove", "chain">>
Numbers == <<1, 2, 3, 5>>

RECURSIVE InternAll(_, _, _)
InternAll(I, k, strings) ==
  IF strings /\ k > Len(Strings) THEN InternAll(I, 1, FALSE)
  ELSE IF ~strings /\ k > Len(Numbers) THEN I
  ELSE InternAll((IF strings THEN InternString(I, Strings[k])
                  ELSE InternNumber(I, Numbers[k]))[2], k + 1, strings)

\* the interner when the first transaction is made
StartInterner == InternAll(NewInterner, 1, TRUE)

S(name) == Static(StartInterner.strings[name])
N(x) == StartInterner.numbers[x]

\* search edge(x, y), edge(y, z); bind edge(x, z)
TransitiveClosure ==
  <<Block("tc", <<JoinNode(<<Scan(Register(0), S("edge"), Register(1), Ignore),
                             Scan(Register(1), S("edge"), Register(2), Ignore)>>),
                  OutputWrapperNode(<<OutputNode("InsertNode", Register(0), S("edge"),
                                                 Register(2), S("tc"))>>)>>, 3)>>

\* search [x a1 v]; bind [x a2 v] -- search [x a2 v]; bind [z a3 v], z never bound
Faulty ==
  <<Block("copy", <<JoinNode(<<Scan(Register(0), S("a1"), Register(1), Ignore)>>),
                    OutputWrapperNode(<<OutputNode("InsertNode", Register(0), S("a2"),
                                                   Register(1), S("copy"))>>)>>, 2),
    Block("faulty", <<JoinNode(<<Scan(Register(0), S("a2"), Register(1), Ignore)>>),
                      OutputWrapperNode(<<OutputNode("InsertNode", Register(2), S("a3"),
                                                     Register(1), S("faulty"))>>)>>, 3)>>

\* search [e tick v]; commit [e count v] -- search [e next v]; commit remove [e count v]
\* -- search [e count v]; bind [e a2 v]
Commits ==
  <<Block("insert", <<JoinNode(<<Scan(Register(0), S("tick"), Register(1), Ignore)>>),
                      OutputWrapperNode(<<OutputNode("CommitInsertNode", Register(0), S("count"),
                                                     Register(1), S("insert"))>>)>>, 2),
    Block("remove", <<JoinNode(<<Scan(Register(0), S("next"), Register(1), Ignore)>>),
                      OutputWrapperNode(<<OutputNode("CommitRemoveNode", Register(0), S("count"),
                                                     Register(1), S("remove"))>>)>>, 2),
    Block("copy", <<JoinNode(<<Scan(Register(0), S("count"), Register(1), Ignore)>>),
                    OutputWrapperNode(<<OutputNode("InsertNode", Register(0), S("a2"),
                                                   Register(1), S("copy"))>>)>>, 2)>>

\* search [e seed v]; commit [e count v]
\* -- search [e seed v]; bind remove [e count 3], bind remove [e count 5]
\* -- search [e count v], w = v + 1; commit [e count w]
Counter ==
  <<Block("seed", <<JoinNode(<<Scan(Register(0), S("seed"), Register(1), Ignore)>>),
                    OutputWrapperNode(<<OutputNode("CommitInsertNode", Register(0), S("count"),
                                                   Register(1), S("seed"))>>)>>, 2),
    Block("remove", <<JoinNode(<<Scan(Register(0), S("seed"), Register(1), Ignore)>>),
                      OutputWrapperNode(<<OutputNode("RemoveNode", Register(0), S("count"),
                                                     Static(N(3)), S("remove")),
                                          OutputNode("RemoveNode", Register(0), S("count"),
                                                     Static(N(5)), S("remove"))>>)>>, 2),
    Block("chain", <<JoinNode(<<Scan(Register(0), S("count"), Register(1), Ignore),
                                FunctionConstraint("+", <<Register(1), Static(N(1))>>,
                                                   <<Register(2)>>)>>),
                     OutputWrapperNode(<<OutputNode("CommitInsertNode", Register(0), S("count"),
                                                    Register(2), S("chain"))>>)>>, 3)>>

\* search [r next v], w = v + 1; bind [v next w]
Chain ==
  <<Block("chain", <<JoinNode(<<Scan(Register(0), S("next"), Register(1), Ignore),
                                FunctionConstraint("+", <<Register(1), Static(N(1))>>,
                                                   <<Register(2)>>)>>),
                     OutputWrapperNode(<<OutputNode("InsertNode", Register(1), S("next"),
                                                    Register(2), S("chain"))>>)>>, 3)>>

\* search [x a1 v]; bind [x a2 v] -- search [x tick v]; bind [x a3 v]
\* -- search [x tick v]; bind remove [x a3 v] -- search [x tick v], [x a2 v]; bind [x count v]
Rounds ==
  <<Block("copy", <<JoinNode(<<Scan(Register(0), S("a1"), Register(1), Ignore)>>),
                    OutputWrapperNode(<<OutputNode("InsertNode", Register(0), S("a2"),
                                                   Register(1), S("copy"))>>)>>, 2),
    Block("insert", <<JoinNode(<<Scan(Register(0), S("tick"), Register(1), Ignore)>>),
                      OutputWrapperNode(<<OutputNode("InsertNode", Register(0), S("a3"),
                                                     Register(1), S("insert"))>>)>>, 2),
    Block("remove", <<JoinNode(<<Scan(Register(0), S("tick"), Register(1), Ignore)>>),
                      OutputWrapperNode(<<OutputNode("RemoveNode", Register(0), S("a3"),
                                                     Register(1), S("remove"))>>)>>, 2),
    Block("chain", <<JoinNode(<<Scan(Register(0), S("tick"), Register(1), Ignore),
                                Scan(Register(0), S("a2"), Register(1), Ignore)>>),
                     OutputWrapperNode(<<OutputNode("InsertNode", Register(0), S("count"),
                                                    Register(1), S("chain"))>>)>>, 2)>>

\* search [x a1 v], w = v + 1; bind [x a2 w] -- search [x a1 v], w = v + 2; bind [x a3 w]
Sums ==
  <<Block("plus1", <<JoinNode(<<Scan(Register(0), S("a1"), Register(1), Ignore),
                                FunctionConstraint("+", <<Register(1), Static(N(1))>>,
                                                   <<Register(2)>>)>>),
                     OutputWrapperNode(<<OutputNode("InsertNode", Register(0), S("a2"),
                                                    Register(2), S("insert"))>>)>>, 3),
    Block("plus2", <<JoinNode(<<Scan(Register(0), S("a1"), Register(1), Ignore),
                                FunctionConstraint("+", <<Register(1), Static(N(2))>>,
                                                   <<Register(2)>>)>>),
                     OutputWrapperNode(<<OutputNode("InsertNode", Register(0), S("a3"),
                                                    Register(2), S("chain"))>>)>>, 3)>>

\* search edge(x, y), edge(y, z); watch [x count "tc"], in the block of ID 1
Watch ==
  <<Block("watch", <<JoinNode(<<Scan(Register(0), S("edge"), Register(1), Ignore),
                                Scan(Register(1), S("edge"), Register(2), Ignore)>>),
                     WatchNode(Register(0), S("count"), S("tc"), S("chain"), 1)>>, 3)>>

\* the blocks the driver of the program "mutation" adds and removes:
\* search [x a1 v]; bind [x a2 v] -- bind [1 a3 5], a join of one static move
Mutation ==
  <<Block("copy", <<JoinNode(<<Scan(Register(0), S("a1"), Register(1), Ignore)>>),
                    OutputWrapperNode(<<OutputNode("InsertNode", Register(0), S("a2"),
                                                   Register(1), S("copy"))>>)>>, 2),
    Block("static", <<JoinNode(<<MoveConstraint(Static(N(5)), Register(0))>>),
                      OutputWrapperNode(<<OutputNode("InsertNode", Static(N(1)), S("a3"),
                                                     Register(0), S("insert"))>>)>>, 1)>>

\* the program "handlers" is the program "watch" under a driver whose transactions
\* have an export handler that returns, one that raises, or none; the program
\* "staged" is the program "rounds" under a driver whose input changes carry the
\* rounds 0..MaxRound
Programs ==
  {"tc", "faulty", "commits", "counter", "chain", "rounds", "sums", "watch", "mutation",
   "handlers", "staged"}

BlocksOf(p) ==
  CASE p = "tc" -> TransitiveClosure
    [] p = "faulty" -> Faulty
    [] p = "commits" -> Commits
    [] p = "counter" -> Counter
    [] p = "chain" -> Chain
    [] p \in {"rounds", "staged"} -> Rounds
    [] p = "sums" -> Sums
    [] p \in {"watch", "handlers"} -> Watch
    [] p = "mutation" -> <<>>

\* the (e, a, v) triples the driver sends to program p
InputTriples(p) ==
  CASE p \in {"tc", "watch", "handlers"} -> {<<N(1), S("edge").x, N(1)>>,
                                            <<N(1), S("edge").x, N(2)>>,
                                            <<N(2), S("edge").x, N(3)>>}
    [] p = "faulty" -> {<<N(1), S("a1").x, N(2)>>, <<N(1), S("a2").x, N(2)>>}
    [] p = "commits" -> {<<N(1), S("tick").x, N(2)>>, <<N(1), S("tick").x, N(3)>>,
                         <<N(1), S("next").x, N(2)>>}
    [] p = "counter" -> {<<N(1), S("seed").x, N(1)>>, <<N(1), S("count").x, N(3)>>,
                         <<N(1), S("count").x, N(5)>>}
    [] p = "chain" -> {<<N(1), S("next").x, N(1)>>}
    [] p \in {"rounds", "staged"} -> {<<N(1), S("a1").x, N(2)>>,
                                      <<N(1), S("tick").x, N(2)>>}
    [] p \in {"sums", "mutation"} -> {<<N(1), S("a1").x, N(5)>>}

\* the counts of the changes the driver sends to program p
InputCounts(p) == IF p \in {"chain", "staged"} THEN {1} ELSE {1, -1}

\* the rounds of the input changes are 0..MaxRound
MaxRound == 1

\* the rounds of the changes the driver sends to program p
InputRounds(p) == IF p = "staged" THEN 0..MaxRound ELSE {0}

(***************************************************************************)
(* The runtime as a state machine: a driver makes a transaction, sends it  *)
(* input changes with Transaction.output and calls Transaction.exec, which *)
(* is followed step by step.                                               *)
(***************************************************************************)
\* the transactions the driver makes
MaxTransactions == 3
\* the input changes the driver sends over all its transactions
MaxInputs == 3
\* the transactions and the input changes of the driver of the watch program
WatchTransactions == 4
WatchInputs == 5
\* let iterationLimit of exec, which is 10000 there: exec only ever compares total
\* with it, so the loop is followed with a limit that the chain program reaches
iterationLimit == 24
\* the 10 of if(frames > 10) in exec
frameLimit == 10

VARIABLES
  program,              \* the name of the compiled program
  blocks,               \* Transaction.blocks
  GlobalInterner,
  index,                \* EvaluationContext.index
  distinctIndex,        \* EvaluationContext.distinctIndex
  transaction,          \* Transaction.transaction, the number of transactions made
  round, changes, lastFrame, roundChanges, frameCommits, framePartialCommits,
  total, frames, changeIx,   \* the locals of Transaction.exec
  blockIx,              \* the position of exec's loop over the blocks
  pc,                   \* "idle", "input", "mutate", "mutated", "loop", "blocks", "finish",
                        \* "done", "threw"
  diagnostic,           \* what console.error was given: "none", "loop", "frames"
  inputs,               \* the transactions of the input changes sent so far
  base,                 \* the net count of every triple over all the inputs sent
  index0,               \* index when the transaction was made
  queued,               \* the queued changes no prepareRound has taken
  emitted,              \* the changes queued in the frame, in the order of emission
  frame,                \* the commit promotions of the transaction
  committed,            \* the commits prepareRound collapsed last
  promoted,             \* what they collapsed to
  framesRun,            \* the promoted frames the blocks have run a change of
  inserted,             \* the changes index.insert was given by the transaction
  ran,                  \* the blocks executed on the current change, in order
  exportedChanges,      \* Transaction.exportedChanges, by block ID
  exportIndex,          \* EvaluationContext.exportIndex, by <<blockId, e, a, v>>
  negative,             \* the export keys whose running count has been negative
  exportSums,           \* the sum of the counts of the changes exported so far, by
                        \* <<blockId, e, a, v>>
  dormant,              \* the join nodes whose dormant flag is set
  mutations,            \* the block changes made: [block, added, inputs, index]
  exportHandler,        \* Transaction.exportHandler: "none" for a transaction made
                        \* without one, "returns" or "raises" for what its handler does
  tracer,               \* the frames of context.tracer that are open, innermost last
  error,                \* what exec threw to its caller from its export section,
                        \* "none" when it did not
  handled,              \* the calls of the export handler by the transaction:
                        \* [given, outcome]
  unit                  \* the component a driver calls on its own, with what it was
                        \* called with and what it returned (<<>> in the runs of
                        \* the whole runtime)

vars == <<program, blocks, GlobalInterner, index, distinctIndex, transaction, round,
          changes, lastFrame, roundChanges, frameCommits, framePartialCommits, total,
          frames, changeIx, blockIx, pc, diagnostic, inputs, base, index0, queued, emitted,
          frame, committed, promoted, framesRun, inserted, ran, exportedChanges,
          exportIndex, negative, exportSums, dormant, mutations, exportHandler, tracer, error,
          handled, unit>>

\* the variables of the runtime as a whole
runtime == <<program, blocks, GlobalInterner, index, distinctIndex, transaction, round,
             changes, lastFrame, roundChanges, frameCommits, framePartialCommits, total,
             frames, changeIx, blockIx, pc, diagnostic, inputs, base, index0, queued,
             emitted, frame, committed, promoted, framesRun, inserted, ran,
             exportedChanges, exportIndex, negative, exportSums, dormant, mutations, exportHandler,
             tracer, error, handled>>

InitWith(p) ==
  /\ program = p
  /\ blocks = BlocksOf(p)
  /\ GlobalInterner = StartInterner
  /\ index = <<>>
  /\ distinctIndex = <<>>
  /\ transaction = 0
  /\ round = -1
  /\ changes = <<>>
  /\ lastFrame = 0
  /\ roundChanges = <<>>
  /\ frameCommits = <<>>
  /\ framePartialCommits = <<>>
  /\ total = 0
  /\ frames = 0
  /\ changeIx = 0
  /\ blockIx = 0
  /\ pc = "idle"
  /\ diagnostic = "none"
  /\ inputs = <<>>
  /\ base = <<>>
  /\ index0 = <<>>
  /\ queued = 0
  /\ emitted = <<>>
  /\ frame = 0
  /\ committed = <<>>
  /\ promoted = <<>>
  /\ framesRun = {}
  /\ inserted = <<>>
  /\ ran = <<>>
  /\ exportedChanges = <<>>
  /\ exportIndex = <<>>
  /\ negative = {}
  /\ exportSums = <<>>
  /\ dormant = {}
  /\ mutations = <<>>
  /\ exportHandler = "none"
  /\ tracer = <<>>
  /\ error = "none"
  /\ handled = <<>>

Init == unit = <<>> /\ \E p \in Programs : InitWith(p)

\* the transaction and the part of the context it writes, as one record
TOf ==
  [round |-> round, changes |-> changes, lastFrame |-> lastFrame,
   roundChanges |-> roundChanges, frameCommits |-> frameCommits,
   framePartialCommits |-> framePartialCommits, distinctIndex |-> distinctIndex,
   interner |-> GlobalInterner, queued |-> queued, emitted |-> emitted,
   frame |-> frame,
   committed |-> committed, promoted |-> promoted,
   exportedChanges |-> exportedChanges, dormant |-> dormant, threw |-> FALSE]

Store(T) ==
  /\ round' = T.round
  /\ changes' = T.changes
  /\ lastFrame' = T.lastFrame
  /\ roundChanges' = T.roundChanges
  /\ frameCommits' = T.frameCommits
  /\ framePartialCommits' = T.framePartialCommits
  /\ distinctIndex' = T.distinctIndex
  /\ GlobalInterner' = T.interner
  /\ queued' = T.queued
  /\ emitted' = T.emitted
  /\ frame' = T.frame
  /\ committed' = T.committed
  /\ promoted' = T.promoted
  /\ exportedChanges' = T.exportedChanges
  /\ dormant' = T.dormant

\* tracer.transaction(transaction), tracer.input(change) and tracer.block(name)
\* of ./trace: a frame of the type is opened; of is the transaction, the position
\* of the change or that of the block
Tracer_open(opened, type, of) == Append(opened, <<type, of>>)

\* tracer.pop(type) of ./trace: the innermost open frame of the type is closed
Tracer_pop(opened, type) ==
  LET at == {i \in DOMAIN opened : opened[i][1] = type}
  IN IF at = {} THEN opened ELSE RemoveAt(opened, CHOOSE i \in at : \A j \in at : j <= i)

\* the export handlers the driver of program p gives to its transactions
ExportHandlers(p) == IF p = "handlers" THEN {"none", "returns", "raises"} ELSE {"returns"}

\* the errors an export handler raises
HandlerErrors == {"E1", "E2"}

\* the Error exec makes when it has exported changes and no export handler
NoExportHandler == "Unable to export changes without export handler."

\* a catch that rethrows and leaves the frame of the transaction open
ExportFailure_Open(opened, e) == [tracer |-> opened, error |-> e]

\* catch(e) of exec around the call of the export handler: the frame of the
\* transaction is popped and e is thrown; result: [tracer, error]
ExportFailure(opened, e) == [tracer |-> Tracer_pop(opened, "Transaction"), error |-> e]

\* new Transaction(context, transaction, blocks, exportHandler)
NewTransaction ==
  /\ pc \in {"idle", "done", "threw"}
  /\ transaction < (IF program = "watch" THEN WatchTransactions ELSE MaxTransactions)
  /\ transaction' = transaction + 1
  /\ Store([TOf EXCEPT !.round = -1, !.changes = <<>>, !.lastFrame = 0,
                       !.roundChanges = <<>>, !.frameCommits = <<>>,
                       !.framePartialCommits = <<>>, !.queued = 0, !.emitted = <<>>,
                       !.frame = 0,
                       !.committed = <<>>, !.promoted = <<>>,
                       !.exportedChanges = <<>>])
  /\ total' = 0 /\ frames' = 0 /\ changeIx' = 0 /\ blockIx' = 0
  /\ pc' = "input"
  /\ diagnostic' = "none"
  /\ index0' = index
  /\ framesRun' = {}
  /\ inserted' = <<>>
  /\ ran' = <<>>
  /\ exportHandler' \in ExportHandlers(program)
  /\ tracer' = Tracer_open(tracer, "Transaction", transaction')
  /\ error' = "none"
  /\ handled' = <<>>
  /\ UNCHANGED <<program, blocks, index, inputs, base, exportIndex, negative, exportSums, mutations>>
  /\ UNCHANGED unit

\* new BlockChangeTransaction(context, transaction, added, removed, blocks) of the
\* driver of the program "mutation", which adds a block the program does not have
\* or removes one it has; blocks is the blocks of the program after the change
BlockChange ==
  /\ pc \in {"idle", "done", "threw"}
  /\ program = "mutation"
  /\ transaction < MaxTransactions
  /\ \E i \in DOMAIN Mutation :
       LET has == \E j \in DOMAIN blocks : blocks[j] = Mutation[i]
       IN /\ blocks' = IF has THEN SelectSeq(blocks, LAMBDA b : b # Mutation[i])
                       ELSE Append(blocks, Mutation[i])
          /\ mutations' = Append(mutations,
                                 [block |-> Mutation[i], added |-> ~has,
                                  inputs |-> Len(inputs), index |-> index])
  /\ transaction' = transaction + 1
  /\ Store([TOf EXCEPT !.round = -1, !.changes = <<>>, !.lastFrame = 0,
                       !.roundChanges = <<>>, !.frameCommits = <<>>,
                       !.framePartialCommits = <<>>, !.queued = 0, !.emitted = <<>>,
                       !.frame = 0, !.committed = <<>>, !.promoted = <<>>,
                       !.exportedChanges = <<>>])
  /\ total' = 0 /\ frames' = 0 /\ changeIx' = 0 /\ blockIx' = 0
  /\ pc' = "mutate"
  /\ diagnostic' = "none"
  /\ index0' = index
  /\ framesRun' = {}
  /\ inserted' = <<>>
  /\ ran' = <<>>
  /\ exportHandler' \in ExportHandlers(program)
  /\ tracer' = Tracer_open(tracer, "Transaction", transaction')
  /\ error' = "none"
  /\ handled' = <<>>
  /\ UNCHANGED <<program, index, inputs, base, exportIndex, negative, exportSums>>
  /\ UNCHANGED unit

NetOf(b, t) == IF t \in DOMAIN b THEN b[t] ELSE 0

\* the driver sends an input change: an insert of a triple it has not inserted, or
\* the removal of one it has
Input ==
  /\ pc = "input"
  /\ Len(inputs) < (IF program = "watch" THEN WatchInputs ELSE MaxInputs)
  /\ \E t \in InputTriples(program), count \in InputCounts(program),
        r \in InputRounds(program) :
       LET c == Change("Change", t[1], t[2], t[3], S("input").x, r, count)
       IN /\ NetOf(base, t) = (IF count = 1 THEN 0 ELSE 1)
          /\ \E T \in {output(TOf, c)} : Store(T)
          /\ inputs' = Append(inputs, transaction)
          /\ base' = (t :> (NetOf(base, t) + count)) @@ base
  /\ UNCHANGED <<program, blocks, index, transaction, total, frames, changeIx, blockIx,
                 pc, diagnostic, index0, framesRun, inserted, ran, exportIndex, negative, exportSums,
                 mutations, exportHandler, tracer, error, handled>>
  /\ UNCHANGED unit

\* Transaction.exec up to its loop, called by the driver on a transaction it has
\* sent an input or as super.exec of BlockChangeTransaction.exec
ExecStart ==
  /\ \/ pc = "input" /\ \E i \in DOMAIN inputs : inputs[i] = transaction
     \/ pc = "mutated"
  /\ total' = 0 /\ frames' = 0 /\ changeIx' = 0
  /\ \E T \in {prepareRound(TOf, index, 0)} : Store(T)
  /\ pc' = "loop"
  /\ UNCHANGED <<program, blocks, index, transaction, blockIx, diagnostic, inputs, base,
                 index0, framesRun, inserted, ran, exportIndex, negative, exportSums, mutations,
                 exportHandler, tracer, error, handled>>
  /\ UNCHANGED unit

\* a limit test that already fires at the limit
LimitExceeded_AtLimit(counter, limit) == counter >= limit

\* if(total > iterationLimit) and if(frames > 10) of exec
LimitExceeded(counter, limit) == counter > limit

\* a loop over the blocks that ends after the first block
BlocksDone_AfterFirst == blockIx > 1 \/ blockIx > Len(blocks)

\* the loop over the blocks of exec has run every block
BlocksDone == blockIx > Len(blocks)

\* the head of an iteration of exec's loop: the loop condition, the two limits and
\* this.round = change.round
ExecChange ==
  /\ pc = "loop"
  /\ IF changeIx >= Len(changes)
     THEN /\ pc' = "finish"
          /\ UNCHANGED <<total, frames, round, diagnostic, blockIx, framesRun, ran, tracer>>
     ELSE LET change == changes[changeIx + 1]
              newFrame == round # 0 /\ change.round = 0
          IN /\ tracer' = Tracer_open(tracer, "Input", changeIx)
             /\ total' = total + 1
             /\ IF LimitExceeded(total', iterationLimit)
                THEN /\ diagnostic' = "loop"
                     /\ pc' = "finish"
                     /\ UNCHANGED <<frames, round, blockIx, framesRun, ran>>
                ELSE /\ frames' = IF newFrame THEN frames + 1 ELSE frames
                     /\ IF newFrame /\ LimitExceeded(frames', frameLimit)
                        THEN /\ diagnostic' = "frames"
                             /\ pc' = "finish"
                             /\ UNCHANGED <<round, blockIx, framesRun, ran>>
                        ELSE /\ round' = change.round
                             /\ blockIx' = 1
                             /\ ran' = <<>>
                             /\ framesRun' = IF frame > 0 THEN framesRun \cup {frame}
                                              ELSE framesRun
                             /\ pc' = "blocks"
                             /\ UNCHANGED diagnostic
  /\ UNCHANGED <<program, blocks, GlobalInterner, index, distinctIndex, transaction, changes,
                 lastFrame, roundChanges, frameCommits, framePartialCommits, changeIx,
                 inputs, base, index0, queued, emitted, frame, committed, promoted,
                 inserted, exportedChanges, exportIndex, negative, exportSums, dormant, mutations,
                 exportHandler, error, handled>>
  /\ UNCHANGED unit

\* block.exec(context, change, this) for the next block of the loop over the blocks
\* of exec, or remove.exec(context, BLOCK_REMOVE, this) / add.exec(context,
\* BLOCK_ADD, this) of BlockChangeTransaction.exec (this.round is still -1)
ExecBlock ==
  /\ pc \in {"blocks", "mutate"}
  /\ pc = "blocks" => ~BlocksDone
  /\ \E T \in {Block_exec(IF pc = "blocks" THEN blocks[blockIx]
                           ELSE mutations[Len(mutations)].block,
                           TOf, index,
                           IF pc = "blocks" THEN changes[changeIx + 1]
                           ELSE IF mutations[Len(mutations)].added THEN BLOCK_ADD
                           ELSE BLOCK_REMOVE,
                           round)} :
       /\ Store(T)
       /\ pc' = IF T.threw THEN "threw" ELSE IF pc = "blocks" THEN "blocks" ELSE "mutated"
       /\ tracer' = IF T.threw /\ pc = "blocks" THEN Tracer_open(tracer, "Block", blockIx)
                    ELSE tracer
  /\ blockIx' = IF pc = "blocks" THEN blockIx + 1 ELSE blockIx
  /\ ran' = IF pc = "blocks" THEN Append(ran, blockIx) ELSE ran
  /\ UNCHANGED <<program, blocks, index, transaction, total, frames, changeIx, diagnostic,
                 inputs, base, index0, framesRun, inserted, exportIndex, negative, exportSums,
                 mutations, exportHandler, error, handled>>
  /\ UNCHANGED unit

\* the end of an iteration: index.insert(change), changeIx++ and prepareRound
ExecInsert ==
  /\ pc = "blocks"
  /\ BlocksDone
  /\ \E ix \in {IndexInsert(index, changes[changeIx + 1])} :
       /\ index' = ix
       /\ \E T \in {prepareRound(TOf, ix, changeIx + 1)} : Store(T)
  /\ inserted' = Append(inserted, changes[changeIx + 1])
  /\ changeIx' = changeIx + 1
  /\ tracer' = Tracer_pop(tracer, "Input")
  /\ pc' = "loop"
  /\ UNCHANGED <<program, blocks, transaction, total, frames, blockIx, diagnostic, inputs,
                 base, index0, framesRun, ran, exportIndex, negative, exportSums, mutations,
                 exportHandler, error, handled>>
  /\ UNCHANGED unit

\* the export section of exec for the block blockId: its exported changes are
\* collapsed and added to the running counts of exportIndex, and a change of
\* count 1 or -1 is made where a count leaves or reaches 0 from above; the key
\* `${blockId}|${e}|${a}|${v}` of numbers is the tuple of the four;
\* result: [exports, exportIndex]
Exports(blockId, exported, exportIndex0) ==
  LET RECURSIVE walk(_, _, _, _)
      walk(rawExports, exports, xi, k) ==
        IF k > Len(rawExports) THEN [exports |-> exports, exportIndex |-> xi]
        ELSE LET change == rawExports[k]
                 beav == <<blockId, change.e, change.a, change.v>>
                 old == IF beav \in DOMAIN xi THEN xi[beav] ELSE 0
                 neue == Plus(old, change.count)
                 delta == IF old = 0 /\ Positive(neue) THEN 1
                          ELSE IF Positive(old) /\ neue = 0 THEN -1
                          ELSE 0
             IN walk(rawExports,
                     IF delta # 0
                     THEN Append(exports, Change("Change", change.e, change.a, change.v,
                                                 change.n, 0, delta))
                     ELSE exports,
                     (beav :> neue) @@ xi, k + 1)
  IN walk(collapseMultiplicity(exported).results, <<>>, exportIndex0, 1)

\* the sums of the counts of the changes exported, with those of the changes of
\* exported (one change at most for a key) added
Exported(sums, exported) ==
  LET of(beav) == {c \in {exported[beav[1]][i] : i \in DOMAIN exported[beav[1]]} :
                     <<c.e, c.a, c.v>> = <<beav[2], beav[3], beav[4]>>}
      keys == UNION {{<<b, exported[b][i].e, exported[b][i].a, exported[b][i].v>> :
                        i \in DOMAIN exported[b]} : b \in DOMAIN exported}
  IN [beav \in DOMAIN sums \cup keys |->
        (IF beav \in DOMAIN sums THEN sums[beav] ELSE 0)
        + (IF beav \in keys THEN (CHOOSE c \in of(beav) : TRUE).count ELSE 0)]

\* exec after its loop: without exported changes the frame of the transaction is
\* popped; with exported changes and no export handler exec throws; otherwise the
\* export section runs block by block and the export handler is called with
\* this.exportedChanges, and what it raises is thrown by ExportFailure.
\* releaseArena finds the functionOutput arena empty (arenaIntern is never used)
ExecFinish ==
  /\ pc = "finish"
  /\ LET RECURSIVE each(_, _, _, _)
         each(blockIds, exported, xi, k) ==
           IF k > Len(blockIds) THEN [exportedChanges |-> exported, exportIndex |-> xi]
           ELSE LET then(r) == each(blockIds, [exported EXCEPT ![blockIds[k]] = r.exports],
                                    r.exportIndex, k + 1)
                IN then(Exports(blockIds[k], exported[blockIds[k]], xi))
         store(r) ==
           /\ exportedChanges' = r.exportedChanges
           /\ exportIndex' = r.exportIndex
           /\ negative' = negative \cup {beav \in DOMAIN r.exportIndex :
                                            r.exportIndex[beav] < 0}
           /\ exportSums' = Exported(exportSums, r.exportedChanges)
         thrown(f) == tracer' = f.tracer /\ error' = f.error /\ pc' = "threw"
         call(outcome) ==
           /\ handled' = Append(handled, [given |-> exportedChanges', outcome |-> outcome])
           /\ IF outcome = "returned"
              THEN /\ tracer' = Tracer_pop(tracer, "Transaction")
                   /\ pc' = "done"
                   /\ UNCHANGED error
              ELSE thrown(ExportFailure(tracer, outcome))
     IN IF DOMAIN exportedChanges # {} /\ exportHandler = "none"
        THEN /\ pc' = "threw"
             /\ error' = NoExportHandler
             /\ UNCHANGED <<exportedChanges, exportIndex, negative, exportSums, tracer, handled>>
        ELSE /\ store(each(SetToSeq(DOMAIN exportedChanges), exportedChanges, exportIndex, 1))
             /\ IF DOMAIN exportedChanges = {}
                THEN /\ tracer' = Tracer_pop(tracer, "Transaction")
                     /\ pc' = "done"
                     /\ UNCHANGED <<error, handled>>
                ELSE \E outcome \in (IF exportHandler = "raises" THEN HandlerErrors
                                     ELSE {"returned"}) : call(outcome)
  /\ UNCHANGED <<program, blocks, GlobalInterner, index, distinctIndex, transaction, round,
                 changes, lastFrame, roundChanges, frameCommits, framePartialCommits, total,
                 frames, changeIx, blockIx, diagnostic, inputs, base, index0, queued, emitted,
                 frame, committed, promoted, framesRun, inserted, ran, dormant, mutations,
                 exportHandler>>
  /\ UNCHANGED unit

\* an exec whose loop over the blocks runs the first block only
exec_FirstBlock(blks, T0, ix0) ==
  LET RECURSIVE loop(_, _, _, _, _)
      loop(T, ix, cIx, tot, frms) ==
        IF cIx >= Len(T.changes) \/ tot + 1 > iterationLimit
        THEN [index |-> ix, interner |-> T.interner]
        ELSE LET change == T.changes[cIx + 1]
                 inserted1(U, ix2) == loop(prepareRound(U, ix2, cIx + 1), ix2, cIx + 1, tot + 1, frms)
                 after(U) == IF U.threw THEN [index |-> ix, interner |-> U.interner]
                             ELSE inserted1(U, IndexInsert(ix, change))
             IN after(Block_exec(blks[1], [T EXCEPT !.round = change.round], ix, change,
                                 change.round))
  IN loop(prepareRound(T0, ix0, 0), ix0, 0, 0, 0)

\* Transaction.exec as one step, on the blocks blks; result: [index, interner], what
\* it leaves (also when a block throws or a limit ends the loop)
exec(blks, T0, ix0) ==
  LET RECURSIVE runBlocks(_, _, _, _), loop(_, _, _, _, _)
      runBlocks(T, ix, change, i) ==
        IF i > Len(blks) \/ T.threw THEN T
        ELSE runBlocks(Block_exec(blks[i], T, ix, change, change.round), ix, change, i + 1)
      loop(T, ix, cIx, tot, frms) ==
        IF cIx >= Len(T.changes) THEN [index |-> ix, interner |-> T.interner]
        ELSE LET change == T.changes[cIx + 1]
                 newFrame == T.round # 0 /\ change.round = 0
                 inserted1(U, ix2) ==
                   loop(prepareRound(U, ix2, cIx + 1), ix2, cIx + 1, tot + 1,
                        IF newFrame THEN frms + 1 ELSE frms)
                 after(U) == IF U.threw THEN [index |-> ix, interner |-> U.interner]
                             ELSE inserted1(U, IndexInsert(ix, change))
             IN IF LimitExceeded(tot + 1, iterationLimit)
                   \/ (newFrame /\ LimitExceeded(frms + 1, frameLimit))
                THEN [index |-> ix, interner |-> T.interner]
                ELSE after(runBlocks([T EXCEPT !.round = change.round], ix, change, 1))
  IN loop(prepareRound(T0, ix0, 0), ix0, 0, 0, 0)

Next ==
  \/ NewTransaction
  \/ BlockChange
  \/ Input
  \/ ExecStart
  \/ ExecChange
  \/ ExecBlock
  \/ ExecInsert
  \/ ExecFinish

Spec == Init /\ [][Next]_vars

(***************************************************************************)
(* The interner on its own: a driver interns raw values and releases the   *)
(* IDs it holds a reference to.  unit is [interner, op, value, id, before, *)
(* refs, order, calls, releases, interned, released]: the interner, the    *)
(* last call ("intern" or "release"), its raw value, the ID it returned or *)
(* was given, the interner before it, the references the driver holds by   *)
(* raw value, the raw values in the order in which they were first         *)
(* interned, the number of calls and of releases, and how often each ID    *)
(* was returned by intern and given to release.                            *)
(***************************************************************************)
\* the raw values the driver interns
RawValues == {<<"number", 1>>, <<"number", 2>>, <<"string", "1">>, <<"string", "a">>}
\* the calls the driver makes
MaxCalls == 6

InternerInit ==
  /\ InitWith("tc")
  /\ unit = [interner |-> NewInterner, op |-> "none", value |-> <<"number", 1>>, id |-> 0,
             before |-> NewInterner, refs |-> [v \in RawValues |-> 0], order |-> <<>>,
             calls |-> 0, releases |-> 0, interned |-> <<>>, released |-> <<>>]

\* the calls counted by ID, with one more of id
Tallied(tally, id) == (id :> (IF id \in DOMAIN tally THEN tally[id] ELSE 0) + 1) @@ tally

\* an intern with one dictionary for both types, whose keys are the values turned
\* into strings: the string "1" finds the entry of the number 1
intern_Shared(I, raw) ==
  InternNumber(I, IF raw[1] = "number" THEN raw[2] ELSE IF raw[2] = "1" THEN 1 ELSE 0)

\* Interner.intern(value): the dictionary is chosen by isNumber(value)
intern(I, raw) == IF raw[1] = "number" THEN InternNumber(I, raw[2]) ELSE InternString(I, raw[2])

\* the driver interns a raw value
Intern ==
  /\ unit.calls < MaxCalls
  /\ \E raw \in RawValues :
       LET called(r) ==
             unit' = [unit EXCEPT !.interner = r[2], !.op = "intern", !.value = raw,
                                  !.id = r[1], !.before = unit.interner,
                                  !.refs[raw] = @ + 1,
                                  !.order = IF \E i \in DOMAIN @ : @[i] = raw THEN @
                                            ELSE Append(@, raw),
                                  !.calls = @ + 1, !.interned = Tallied(@, r[1])]
       IN called(intern(unit.interner, raw))
  /\ UNCHANGED runtime

\* the driver releases the ID of a raw value it holds a reference to
Release ==
  /\ unit.calls < MaxCalls
  /\ \E raw \in RawValues :
       /\ unit.refs[raw] > 0
       /\ unit' = [unit EXCEPT !.interner = release(@, InternerGet(@, raw)), !.op = "release",
                               !.value = raw, !.id = InternerGet(unit.interner, raw),
                               !.before = unit.interner, !.refs[raw] = @ - 1,
                               !.calls = @ + 1, !.releases = @ + 1,
                               !.released = Tallied(@, InternerGet(unit.interner, raw))]
  /\ UNCHANGED runtime

InternerNext == Intern \/ Release

InternerSpec == InternerInit /\ [][InternerNext]_vars

(***************************************************************************)
(* A choose node on its own: a driver sends one input change after the     *)
(* other through the node, as Transaction.exec does with the block that    *)
(* holds it, and inserts the change into the index afterwards.  The input  *)
(* changes are those the distinct index lets through: the running count of *)
(* a fact stays 0 or 1 at every round.  unit holds the index, the state of *)
(* the node, the counts of the facts sent (facts), and the counts of the   *)
(* results of the node (net) and of each of its branches (netBy), by       *)
(* register values and round, the facts in the order in which they were    *)
(* first asserted (order) and the facts asserted again after a retraction  *)
(* (again).                                                                *)
(***************************************************************************)
\* search [x a3 1]; y = if [x a1 v] then v else if [x a2 v] then v
Choice ==
  ChooseFlow(JoinNode(<<Scan(Register(0), S("a3"), Static(N(1)), Ignore)>>),
             <<JoinNode(<<Scan(Register(0), S("a1"), Register(1), Ignore)>>),
               JoinNode(<<Scan(Register(0), S("a2"), Register(1), Ignore)>>)>>,
             <<<<Register(0)>>, <<Register(0)>>>>, <<Register(1)>>, <<>>)

\* the facts the driver asserts and retracts
ChoiceTriples ==
  {<<N(1), S("a3").x, N(1)>>, <<N(1), S("a1").x, N(3)>>, <<N(1), S("a2").x, N(5)>>}

\* the input changes the driver sends to a node
MaxFlowInputs == 5

\* the counts of a key by round, with count added at round r
Counted(counts, key, r, count) ==
  LET had == IF key \in DOMAIN counts THEN counts[key] ELSE [k \in 0..MaxRound |-> 0]
  IN (key :> [had EXCEPT ![r] = @ + count]) @@ counts

\* the running count of a key at round r
Running_At(counts, key, r) ==
  IF key \in DOMAIN counts THEN SumFrom([k \in 1..(MaxRound + 1) |-> counts[key][k - 1]], 1, r + 1)
  ELSE 0

RECURSIVE CountedAll(_, _)
\* the counts with the results of a node added
CountedAll(counts, results) ==
  IF results = <<>> THEN counts
  ELSE CountedAll(Counted(counts, hashPrefix(Head(results)), PrefixRound(Head(results)),
                          PrefixCount(Head(results))),
                  Tail(results))

ChooseInit ==
  /\ InitWith("tc")
  /\ unit = [ix |-> <<>>, state |-> NewChooseState(Choice), facts |-> <<>>, net |-> <<>>,
             netBy |-> [b \in DOMAIN Choice.branches |-> <<>>], order |-> <<>>,
             again |-> {}, calls |-> 0]

\* the driver sends an input change through the choose node
ChooseInput ==
  /\ unit.calls < MaxFlowInputs
  /\ \E t \in ChoiceTriples, r \in 0..MaxRound, count \in {1, -1} :
       LET input == Change("Change", t[1], t[2], t[3], S("input").x, r, count)
           sent == Counted(unit.facts, t, r, count)
           called(o) ==
             unit' = [ix |-> IndexInsert(unit.ix, input), state |-> o.state, facts |-> sent,
                      net |-> CountedAll(unit.net, o.results),
                      netBy |-> [b \in DOMAIN Choice.branches |->
                                   CountedAll(unit.netBy[b], o.branchResults[b])],
                      order |-> IF t \in DOMAIN unit.facts THEN unit.order
                                ELSE Append(unit.order, t),
                      again |-> IF count = 1 /\ t \in DOMAIN unit.facts
                                THEN unit.again \cup {t} ELSE unit.again,
                      calls |-> unit.calls + 1]
       IN /\ \A k \in 0..MaxRound : Running_At(sent, t, k) \in {0, 1}
          /\ called(ChooseFlow_exec(Choice, unit.state, unit.ix, StartInterner, input,
                                 InitialPrefix(2), r))
  /\ UNCHANGED runtime

ChooseNext == ChooseInput

ChooseSpec == ChooseInit /\ [][ChooseNext]_vars

(***************************************************************************)
(* An aggregate node on its own: a driver sends one prefix after the other *)
(* through the node, as the nodes before it in its block do.  A prefix     *)
(* holds a group in register 0 and a projection in register 1; the node    *)
(* writes its result to register 2.  The running count of a prefix stays   *)
(* in 0..MaxSupport at every round.  unit holds the state of the node, the *)
(* interner, the counts of the prefixes sent (facts) and the counts of the *)
(* results of the node (net), by register values and round.                *)
(***************************************************************************)
\* gather/count of the projections (register 1) per group (register 0)
CountByTag == AggregateNode("count", <<Register(0)>>, <<Register(1)>>, <<>>, <<Register(2)>>)

\* the groups and their members: [1 tag x] [2 tag x] [3 tag y]
Tagged == {<<S("a1").x, N(1)>>, <<S("a1").x, N(2)>>, <<S("a2").x, N(3)>>}

\* the groups of the prefixes
TagGroups == {t[1] : t \in Tagged}

\* the prefixes with the same registers that hold a prefix up at one round
MaxSupport == 2

AggregateInit ==
  /\ InitWith("tc")
  /\ unit = [state |-> NewAggregateState, interner |-> StartInterner, facts |-> <<>>,
             net |-> <<>>, thrown |-> FALSE, calls |-> 0]

\* the driver sends a prefix through the aggregate node
AggregateInput ==
  /\ unit.calls < MaxFlowInputs
  /\ \E t \in Tagged, r \in 0..MaxRound, count \in {1, -1} :
       LET prefix == <<t[1], t[2], undefined, r, count>>
           sent == Counted(unit.facts, t, r, count)
           called(o) ==
             unit' = [state |-> o.state, interner |-> o.interner, facts |-> sent,
                      net |-> CountedAll(unit.net, o.results), thrown |-> o.thrown,
                      calls |-> unit.calls + 1]
       IN /\ \A k \in 0..MaxRound : Running_At(sent, t, k) \in 0..MaxSupport
          /\ called(AggregateNode_exec(CountByTag, unit.state, unit.interner, prefix))
  /\ UNCHANGED runtime

AggregateNext == AggregateInput

AggregateSpec == AggregateInit /\ [][AggregateNext]_vars

(***************************************************************************)
(* A sort node on its own: a driver sends one prefix after the other       *)
(* through the node, all with the round of the first.  A prefix holds a    *)
(* group in register 0 and the values to sort by in registers 1 and 2; the *)
(* node writes the rank to register 3.  The running count of a prefix      *)
(* stays in 0..MaxSupport.  unit holds the state of the node, the          *)
(* interner, the counts of the prefixes sent (facts) and of the results of *)
(* the node (net), the rounds of the prefixes sent, the elements in the    *)
(* order in which they were last added (arrival), whether an element was   *)
(* removed, and the last call: its element, its count, the arrival before  *)
(* it and its results.                                                     *)
(***************************************************************************)
\* the interner with the directions and the string "1" interned
SortInterner ==
  InternString(InternString(InternString(StartInterner, "up")[2], "down")[2], "1")[2]

\* sort by register 1 upwards, then by register 2 downwards
Ranker ==
  SortNode(<<Register(0)>>, <<Register(1), Register(2)>>,
           <<Static(SortInterner.strings["up"]), Static(SortInterner.strings["down"])>>,
           <<Register(3)>>)

\* the elements of the group: (1, 2), (1, 1), (1, "1") and (2, 1)
SortElements ==
  LET g == S("a1").x
  IN {<<g, N(1), N(2)>>, <<g, N(1), N(1)>>, <<g, N(1), SortInterner.strings["1"]>>,
      <<g, N(2), N(1)>>}

SortInit ==
  /\ InitWith("tc")
  /\ unit = [state |-> NewAggregateState, interner |-> SortInterner, facts |-> <<>>,
             net |-> <<>>, rounds |-> {}, arrival |-> <<>>, removed |-> FALSE,
             last |-> [element |-> <<>>, count |-> 0, before |-> <<>>, results |-> <<>>],
             calls |-> 0]

\* the driver sends a prefix through the sort node
SortInput ==
  /\ unit.calls < MaxFlowInputs
  /\ \E t \in SortElements, r \in 0..MaxRound, count \in {1, -1} :
       LET prefix == <<t[1], t[2], t[3], undefined, r, count>>
           sent == Counted(unit.facts, t, r, count)
           was == Running_At(unit.facts, t, r)
           others == SelectSeq(unit.arrival, LAMBDA e : e # t)
           called(o) ==
             unit' = [state |-> o.state, interner |-> o.interner, facts |-> sent,
                      net |-> CountedAll(unit.net, o.results),
                      rounds |-> unit.rounds \cup {r},
                      arrival |-> IF was = 0 THEN Append(others, t)
                                  ELSE IF was + count = 0 THEN others ELSE unit.arrival,
                      removed |-> unit.removed \/ was + count = 0,
                      last |-> [element |-> t, count |-> count, before |-> unit.arrival,
                                results |-> o.results],
                      calls |-> unit.calls + 1]
       IN /\ unit.rounds \subseteq {r}
          /\ \A k \in 0..MaxRound : Running_At(sent, t, k) \in 0..MaxSupport
          /\ called(SortNode_exec(Ranker, unit.state, unit.interner, prefix))
  /\ UNCHANGED runtime

SortNext == SortInput

SortSpec == SortInit /\ [][SortNext]_vars

(***************************************************************************)
(* The output nodes on their own: a driver runs one output node on one     *)
(* prefix, as the join before it in its block does, until a node throws.   *)
(* A prefix holds two registers, each bound or undefined.  unit holds the  *)
(* transaction, the node and the prefix of the last call and the           *)
(* transaction before that call.                                           *)
(***************************************************************************)
\* the nodes the driver runs: a wrapper of one node of every kind on [register 0, a1, register 1],
\* and a remove of every value of [register 0, a1]
OutputNodes ==
  {OutputWrapperNode(<<OutputNode(type, Register(0), S("a1"), Register(1), S("insert"))>>) :
     type \in {"InsertNode", "CommitInsertNode", "RemoveNode", "CommitRemoveNode"}}
  \cup {OutputWrapperNode(<<OutputNode("RemoveNode", Register(0), S("a1"), Ignore,
                                      S("insert"))>>),
        WatchNode(Register(0), S("a1"), Register(1), S("insert"), 1)}

\* the calls of the driver
MaxOutputs == 2

OutputInit ==
  /\ InitWith("tc")
  /\ unit = [T |-> TOf, before |-> TOf, node |-> [type |-> "none"], prefix |-> <<>>, calls |-> 0]

\* the driver runs a node on a prefix
OutputInput ==
  /\ unit.calls < MaxOutputs
  /\ ~unit.T.threw
  /\ \E node \in OutputNodes, e \in {undefined, N(1)}, v \in {undefined, N(1)},
        r \in 0..MaxRound, count \in {1, -1} :
       unit' = [T |-> Node_exec(node, unit.T, <<>>, <<>>, <<e, v, r, count>>, r).S,
                before |-> unit.T, node |-> node, prefix |-> <<e, v, r, count>>,
                calls |-> unit.calls + 1]
  /\ UNCHANGED runtime

OutputNext == OutputInput

OutputSpec == OutputInit /\ [][OutputNext]_vars

(***************************************************************************)
(* One step of generic join on its own: a driver inserts edges into an     *)
(* index and lets the constraints of a join propose on a prefix.  unit     *)
(* holds the index, the prefix and the proposals of the last step and the  *)
(* position of the proposal the step chose.                                *)
(***************************************************************************)
\* search edge(x, y), edge(y, z)
Path == TransitiveClosure[1].nodes[1]

\* the edges the driver inserts
MaxEdges == 3

\* the nodes of the edges
EdgeEnds == {N(1), N(2), N(3)}

ProposeInit ==
  /\ InitWith("tc")
  /\ unit = [ix |-> <<>>, edges |-> {}, prefix |-> <<>>, proposals |-> <<>>, best |-> 0,
             steps |-> 0]

\* the driver inserts an edge
ProposeEdge ==
  /\ Cardinality(unit.edges) < MaxEdges
  /\ unit.steps = 0
  /\ \E x \in EdgeEnds, y \in EdgeEnds :
       /\ <<x, y>> \notin unit.edges
       /\ unit' = [unit EXCEPT
                     !.ix = IndexInsert(@, Change("Change", x, S("edge").x, y, S("input").x, 0, 1)),
                     !.edges = @ \cup {<<x, y>>}]
  /\ UNCHANGED runtime

\* the first loop of genericJoin on a prefix
ProposeStep ==
  /\ unit.steps = 0
  /\ \E x \in EdgeEnds \cup {undefined}, y \in EdgeEnds \cup {undefined},
        z \in EdgeEnds \cup {undefined} :
       LET prefix == <<x, y, z, 0, 1>>
           chosen(proposals) ==
             unit' = [unit EXCEPT !.prefix = prefix, !.proposals = proposals,
                                  !.best = bestProposal(proposals), !.steps = 1]
       IN chosen([i \in DOMAIN Path.constraints |-> Propose(Path.constraints[i], unit.ix, prefix)])
  /\ UNCHANGED runtime

ProposeNext == ProposeEdge \/ ProposeStep

ProposeSpec == ProposeInit /\ [][ProposeNext]_vars

(***************************************************************************)
(* A join on its own: a driver sends the changes of edges through a join   *)
(* of one, two or three scans, one after the other, and inserts each into  *)
(* the index after the join has run on it, as the loop of Transaction.exec *)
(* does.  The running count of an edge stays in {0, 1} at every round.     *)
(* unit holds the join, the index, the counts of the changes sent (facts), *)
(* and the last call: its input, the index it ran on and its results.      *)
(***************************************************************************)
\* search edge(x, y) -- search edge(x, y), edge(y, z)
\* -- search edge(x, y), edge(y, z), edge(z, x)
Joins ==
  {JoinNode(<<Scan(Register(0), S("edge"), Register(1), Ignore)>>),
   Path,
   JoinNode(<<Scan(Register(0), S("edge"), Register(1), Ignore),
              Scan(Register(1), S("edge"), Register(2), Ignore),
              Scan(Register(2), S("edge"), Register(0), Ignore)>>)}

\* the edges of the changes
JoinEdges == {<<N(1), N(1)>>, <<N(1), N(2)>>, <<N(2), N(1)>>}

\* the changes the driver sends
MaxJoinInputs == 3

JoinInit ==
  /\ InitWith("tc")
  /\ \E join \in Joins :
       unit = [join |-> join, ix |-> <<>>, facts |-> <<>>, input |-> <<>>, before |-> <<>>,
               results |-> <<>>, calls |-> 0]

\* the driver sends a change through the join
JoinInput ==
  /\ unit.calls < MaxJoinInputs
  /\ \E t \in JoinEdges, r \in 0..MaxRound, count \in {1, -1} :
       LET input == Change("Change", t[1], S("edge").x, t[2], S("input").x, r, count)
           sent == Counted(unit.facts, t, r, count)
           called(o) ==
             unit' = [unit EXCEPT !.ix = IndexInsert(@, input), !.facts = sent,
                                  !.input = input, !.before = unit.ix,
                                  !.results = o.results, !.calls = @ + 1]
       IN /\ \A k \in 0..MaxRound : Running_At(sent, t, k) \in {0, 1}
          /\ called(JoinNode_exec(unit.join, FALSE, unit.ix, StartInterner, input,
                                  InitialPrefix(3), r))
  /\ UNCHANGED runtime

JoinNext == JoinInput

JoinSpec == JoinInit /\ [][JoinNext]_vars

(***************************************************************************)
(* A binary join on its own: a driver sends prefixes to its left and to    *)
(* its right, one after the other, in a transaction round at or before the *)
(* round of the prefix.  A prefix holds the key in register 0 and the      *)
(* register to merge in register 1, which a left prefix may leave          *)
(* undefined.  The running count of a prefix stays in {0, 1} at every      *)
(* round.  unit holds the indexes of the node, the counts of the prefixes  *)
(* sent to the left and to the right (lefts, rights), and the last call:   *)
(* its side, its prefix, its round and its results.                        *)
(***************************************************************************)
\* a join on register 0 that merges register 1
Pairing == BinaryJoinRight(<<>>, <<>>, <<Register(0)>>, <<Register(1)>>)

\* the keys of the prefixes
PairKeys == {N(1), N(2)}

\* the prefixes the driver sends
MaxPairInputs == 3

BinaryInit ==
  /\ InitWith("tc")
  /\ unit = [state |-> NewFlowState(Pairing), lefts |-> <<>>, rights |-> <<>>,
             onLeft |-> FALSE, prefix |-> <<>>, round |-> 0, results |-> <<>>, calls |-> 0]

\* a prefix arrives on the left
BinaryLeft ==
  /\ unit.calls < MaxPairInputs
  /\ \E key \in PairKeys, value \in {undefined, N(1)}, at \in 0..MaxRound,
        count \in {1, -1} :
       \E r \in at..MaxRound :
         LET prefix == <<key, value, r, count>>
             sent == Counted(unit.lefts, hashPrefix(prefix), r, count)
             called(o) ==
               unit' = [unit EXCEPT !.state = o.state, !.lefts = sent, !.onLeft = TRUE,
                                    !.prefix = prefix, !.round = at,
                                    !.results = o.results, !.calls = @ + 1]
         IN /\ \A k \in 0..MaxRound : Running_At(sent, hashPrefix(prefix), k) \in {0, 1}
            /\ called(BinaryJoinRight_onLeft(Pairing, unit.state, prefix, at))
  /\ UNCHANGED runtime

\* a prefix arrives on the right
BinaryRight ==
  /\ unit.calls < MaxPairInputs
  /\ \E key \in PairKeys, value \in {N(1), N(2)}, at \in 0..MaxRound, count \in {1, -1} :
       \E r \in at..MaxRound :
         LET prefix == <<key, value, r, count>>
             sent == Counted(unit.rights, hashPrefix(prefix), r, count)
             called(o) ==
               unit' = [unit EXCEPT !.state = o.state, !.rights = sent, !.onLeft = FALSE,
                                    !.prefix = prefix, !.round = at,
                                    !.results = o.results, !.calls = @ + 1]
         IN /\ \A k \in 0..MaxRound : Running_At(sent, hashPrefix(prefix), k) \in {0, 1}
            /\ called(BinaryJoinRight_onRight(Pairing, unit.state, prefix, at))
  /\ UNCHANGED runtime

BinaryNext == BinaryLeft \/ BinaryRight

BinarySpec == BinaryInit /\ [][BinaryNext]_vars

(***************************************************************************)
(* The right index of an antijoin on its own: a driver inserts right       *)
(* prefixes of one key and iterates over the counts of the key from a      *)
(* minimum round.  unit holds the index, the counts of the prefixes        *)
(* inserted by round (sent), and the minimum round and the <<round,        *)
(* count>> pairs of the last iteration.                                    *)
(***************************************************************************)
\* the rounds of the right prefixes are 0..LastRound
LastRound == MaxRound + 1

\* the prefixes the driver inserts
MaxRights == 3

ZeroInit ==
  /\ InitWith("tc")
  /\ unit = [index |-> <<>>, sent |-> [r \in 0..LastRound |-> 0], inserts |-> 0,
             iterated |-> FALSE, minRound |-> 0, reports |-> <<>>]

\* rightIndex.insert(key, prefix)
ZeroInsert ==
  /\ unit.inserts < MaxRights
  /\ \E r \in 0..LastRound, count \in {1, -1} :
       unit' = [unit EXCEPT
                  !.index = KeyOnlyIntermediateIndex_insert(@, <<N(1)>>, <<N(1), r, count>>),
                  !.sent[r] = @ + count, !.inserts = @ + 1, !.iterated = FALSE]
  /\ UNCHANGED runtime

\* rightIndex.iter(key, minRound), run to its end
ZeroIterate ==
  /\ <<N(1)>> \in DOMAIN unit.index
  /\ \E minRound \in 0..LastRound :
       unit' = [unit EXCEPT !.iterated = TRUE, !.minRound = minRound,
                            !.reports = KeyOnlyIntermediateIndex_iter(unit.index, <<N(1)>>,
                                                                      minRound)]
  /\ UNCHANGED runtime

ZeroNext == ZeroInsert \/ ZeroIterate

ZeroSpec == ZeroInit /\ [][ZeroNext]_vars

(***************************************************************************)
(* An antijoin on its own: a driver sends prefixes to its left and to its  *)
(* right, one after the other.  A prefix holds the key in register 0 and a *)
(* value in register 1.  The running count of a prefix stays in {0, 1} at  *)
(* every round.  unit holds the indexes of the node, the counts of the     *)
(* prefixes sent to the left and to the right (lefts, rights), the counts  *)
(* of the results of the node (net), and the last call: its side, its      *)
(* prefix and its results.                                                 *)
(***************************************************************************)
\* an antijoin on register 0
Excluding == AntiJoinPresolvedRight(<<>>, <<Register(0)>>)

\* the registers of the left prefixes and of the right prefixes
AntiLefts == {<<N(1), N(1)>>, <<N(1), N(2)>>, <<N(2), N(1)>>}
AntiRights == {<<N(1), N(1)>>, <<N(1), N(2)>>}

\* the prefixes the driver sends
MaxAntiInputs == 4

AntiInit ==
  /\ InitWith("tc")
  /\ unit = [state |-> NewFlowState(Excluding), lefts |-> <<>>, rights |-> <<>>, net |-> <<>>,
             onLeft |-> FALSE, prefix |-> <<>>, results |-> <<>>, calls |-> 0]

\* a prefix arrives on the left
AntiLeft ==
  /\ unit.calls < MaxAntiInputs
  /\ \E h \in AntiLefts, r \in 0..MaxRound, count \in {1, -1} :
       LET prefix == h \o <<r, count>>
           sent == Counted(unit.lefts, h, r, count)
           called(o) ==
             unit' = [unit EXCEPT !.state = o.state, !.lefts = sent, !.onLeft = TRUE,
                                  !.prefix = prefix, !.results = o.results,
                                  !.net = CountedAll(@, o.results), !.calls = @ + 1]
       IN /\ \A k \in 0..MaxRound : Running_At(sent, h, k) \in {0, 1}
          /\ called(AntiJoin_onLeft(Excluding, unit.state, prefix))
  /\ UNCHANGED runtime

\* a prefix arrives on the right
AntiRight ==
  /\ unit.calls < MaxAntiInputs
  /\ \E h \in AntiRights, r \in 0..MaxRound, count \in {1, -1} :
       LET prefix == h \o <<r, count>>
           sent == Counted(unit.rights, h, r, count)
           called(o) ==
             unit' = [unit EXCEPT !.state = o.state, !.rights = sent, !.onLeft = FALSE,
                                  !.prefix = prefix, !.results = o.results,
                                  !.net = CountedAll(@, o.results), !.calls = @ + 1]
       IN /\ \A k \in 0..MaxRound : Running_At(sent, h, k) \in {0, 1}
          /\ called(AntiJoin_onRight(Excluding, unit.state, prefix))
  /\ UNCHANGED runtime

AntiNext == AntiLeft \/ AntiRight

AntiSpec == AntiInit /\ [][AntiNext]_vars

(***************************************************************************)
(* An aggregate or a sort node that is sent more retractions than          *)
(* insertions: a driver sends prefixes of count 1, -1 or -2 through the    *)
(* node until a contribution takes the total of its projection, up to its  *)
(* round, below 0.  unit holds the kind and the state of the node, the     *)
(* interner, the counts of the prefixes sent (facts), whether the node     *)
(* threw, and the total before and the count of the last contribution.     *)
(***************************************************************************)
\* the prefixes the driver sends
MaxContributions == 3

NegativeInit ==
  /\ InitWith("tc")
  /\ \E kind \in {"aggregate", "sort"} :
       unit = [kind |-> kind, state |-> NewAggregateState,
               interner |-> IF kind = "sort" THEN SortInterner ELSE StartInterner,
               facts |-> <<>>, thrown |-> FALSE, total |-> 0, count |-> 0, calls |-> 0]

\* the driver sends a prefix through the aggregate node
NegativeAggregate ==
  /\ unit.kind = "aggregate"
  /\ unit.calls < MaxContributions
  /\ unit.total + unit.count >= 0
  /\ \E t \in Tagged, r \in 0..MaxRound, count \in {1, -1, -2} :
       LET called(o) ==
             unit' = [unit EXCEPT !.state = o.state, !.interner = o.interner,
                                  !.facts = Counted(@, t, r, count), !.thrown = o.thrown,
                                  !.total = Running_At(unit.facts, t, r), !.count = count,
                                  !.calls = @ + 1]
       IN called(AggregateNode_exec(CountByTag, unit.state, unit.interner,
                                    <<t[1], t[2], undefined, r, count>>))
  /\ UNCHANGED runtime

\* the driver sends a prefix through the sort node
NegativeSort ==
  /\ unit.kind = "sort"
  /\ unit.calls < MaxContributions
  /\ unit.total + unit.count >= 0
  /\ \E t \in SortElements, r \in 0..MaxRound, count \in {1, -1, -2} :
       LET called(o) ==
             unit' = [unit EXCEPT !.state = o.state, !.interner = o.interner,
                                  !.facts = Counted(@, t, r, count), !.thrown = o.thrown,
                                  !.total = Running_At(unit.facts, t, r), !.count = count,
                                  !.calls = @ + 1]
       IN called(SortNode_exec(Ranker, unit.state, unit.interner,
                               <<t[1], t[2], t[3], undefined, r, count>>))
  /\ UNCHANGED runtime

NegativeNext == NegativeAggregate \/ NegativeSort

NegativeSpec == NegativeInit /\ [][NegativeNext]_vars

(***************************************************************************)
(* A union and a choose on their own: a driver sends one input change      *)
(* after the other through the node and inserts it into the index          *)
(* afterwards, the running count of a fact staying 0 or 1 at every round.  *)
(* unit holds the node, the index and the state of the node, with the      *)
(* index, the state and the facts before the last call (before), the input *)
(* and the round of the last call, and what each branch of a choose added  *)
(* to the results in it (by), and the changes the output nodes after the   *)
(* node make of the results of the last call (emitted).                    *)
(***************************************************************************)
\* search [x a1]; y = union of [x a1 v] and [x a2 v]: a fact of a1 is an input of
\* the left node and of the first branch
Union ==
  UnionFlow(JoinNode(<<Scan(Register(0), S("a1"), Ignore, Ignore)>>),
            <<JoinNode(<<Scan(Register(0), S("a1"), Register(1), Ignore)>>),
              JoinNode(<<Scan(Register(0), S("a2"), Register(1), Ignore)>>)>>,
            <<<<Register(0)>>, <<Register(0)>>>>, <<Register(1)>>, <<>>)

\* the input changes the driver sends to a union or to a choose
MaxUnionInputs == 3

\* the output nodes after the union or the choose: one of every kind on
\* [register 0, a1, register 1]
UnionOutputs ==
  {OutputNode(type, Register(0), S("a1"), Register(1), S("insert")) :
     type \in {"InsertNode", "CommitInsertNode", "RemoveNode", "CommitRemoveNode"}}

\* the changes the output nodes make of the results of the node
UnionEmitted(results) ==
  LET made == {OutputNode_exec(node, results[i]) : node \in UnionOutputs, i \in DOMAIN results}
  IN {o.change : o \in {m \in made : m.emitted}}

UnionInit ==
  /\ InitWith("tc")
  /\ \E node \in {Union, Choice} :
       unit = [node |-> node, ix |-> <<>>,
               state |-> IF node.type = "union" THEN NewUnionState(node)
                         ELSE NewChooseState(node),
               facts |-> <<>>, before |-> <<>>, input |-> <<>>, by |-> <<>>,
               emitted |-> {}, calls |-> 0]

\* the driver sends an input change through the union
UnionInput ==
  /\ unit.node.type = "union"
  /\ unit.calls < MaxUnionInputs
  /\ \E t \in ChoiceTriples, r \in 0..MaxRound, count \in {1, -1} :
       LET input == Change("Change", t[1], t[2], t[3], S("input").x, r, count)
           sent == Counted(unit.facts, t, r, count)
           called(o) ==
             unit' = [unit EXCEPT !.ix = IndexInsert(@, input), !.state = o.state,
                                  !.facts = sent,
                                  !.before = [ix |-> unit.ix, state |-> unit.state,
                                              facts |-> unit.facts],
                                  !.input = input, !.emitted = UnionEmitted(o.results),
                                  !.calls = @ + 1]
       IN /\ \A k \in 0..MaxRound : Running_At(sent, t, k) \in {0, 1}
          /\ called(UnionFlow_exec(unit.node, unit.state, unit.ix, StartInterner, input,
                                   InitialPrefix(2), r))
  /\ UNCHANGED runtime

\* the driver sends an input change through the choose
UnionChoose ==
  /\ unit.node.type = "choose"
  /\ unit.calls < MaxUnionInputs
  /\ \E t \in ChoiceTriples, r \in 0..MaxRound, count \in {1, -1} :
       LET input == Change("Change", t[1], t[2], t[3], S("input").x, r, count)
           sent == Counted(unit.facts, t, r, count)
           called(o) ==
             unit' = [unit EXCEPT !.ix = IndexInsert(@, input), !.state = o.state,
                                  !.facts = sent,
                                  !.before = [ix |-> unit.ix, state |-> unit.state,
                                              facts |-> unit.facts],
                                  !.input = input, !.by = o.branchResults,
                                  !.emitted = UnionEmitted(o.results), !.calls = @ + 1]
       IN /\ \A k \in 0..MaxRound : Running_At(sent, t, k) \in {0, 1}
          /\ called(ChooseFlow_exec(unit.node, unit.state, unit.ix, StartInterner, input,
                                    InitialPrefix(2), r))
  /\ UNCHANGED runtime

UnionNext == UnionInput \/ UnionChoose

UnionSpec == UnionInit /\ [][UnionNext]_vars

(***************************************************************************)
(* Function constraints on their own: a driver registers functions, with   *)
(* and without an estimator, makes a constraint of a registered function   *)
(* and asks it for a proposal on a prefix.  unit holds the registry        *)
(* (FunctionConstraint.registered), the setups the functions were          *)
(* registered with, and the constraint, the prefix and the proposal of the *)
(* last call of propose.                                                   *)
(***************************************************************************)
\* the setups the driver registers: two names, variadic or not, without an
\* estimator or with one that returns 0 or 3
FunctionSetups ==
  {[name |-> name, variadic |-> variadic] : name \in {"f", "g"}, variadic \in BOOLEAN}
  \cup {[name |-> name, variadic |-> variadic, estimate |-> estimate] :
          name \in {"f", "g"}, variadic \in BOOLEAN, estimate \in {0, 3}}

\* the calls of the driver
MaxFunctionCalls == 3

\* the prefixes of three registers the driver asks for a proposal on
FunctionPrefixes ==
  {<<x, y, z, 0, 1>> : x \in {undefined, N(1)}, y \in {undefined, N(3)}, z \in {undefined, N(5)}}

FunctionInit ==
  /\ InitWith("tc")
  /\ unit = [registered |-> <<>>, setups |-> <<>>, op |-> "none", constraint |-> <<>>,
             prefix |-> <<>>, proposal |-> <<>>, calls |-> 0]

\* makeFunction(setup)
FunctionRegister ==
  /\ unit.calls < MaxFunctionCalls
  /\ \E setup \in FunctionSetups :
       unit' = [unit EXCEPT !.registered = (setup.name :> _makeFunction(setup)) @@ @,
                            !.setups = (setup.name :> setup) @@ @,
                            !.op = "register", !.calls = @ + 1]
  /\ UNCHANGED runtime

\* FunctionConstraint.create and propose: y = name(x, 1), a filter name(x, 1) = 3,
\* or (y, z) = name(x, 1), with z as a variadic input in the first two
FunctionPropose ==
  /\ unit.calls < MaxFunctionCalls
  /\ \E name \in DOMAIN unit.registered, prefix \in FunctionPrefixes,
        returns \in {<<Register(1)>>, <<Static(N(3))>>, <<Register(1), Register(2)>>} :
       LET c == FunctionConstraint_create(unit.registered, name,
                                          <<Register(0), Static(N(1))>>, returns,
                                          IF Len(returns) = 1 THEN <<Register(2)>> ELSE <<>>)
       IN unit' = [unit EXCEPT !.op = "propose", !.constraint = c, !.prefix = prefix,
                               !.proposal = Propose(c, <<>>, prefix), !.calls = @ + 1]
  /\ UNCHANGED runtime

FunctionNext == FunctionRegister \/ FunctionPropose

FunctionSpec == FunctionInit /\ [][FunctionNext]_vars

(***************************************************************************)
(* collapseCommits on its own: a driver commits changes as the commit      *)
(* nodes of a frame make them, a Change from an insert and a RemoveChange  *)
(* from a remove, each of count 1 or -1, and then has the commits          *)
(* collapsed as they are and in another order.  unit holds the commits     *)
(* (T), the order given the second time (given) and the two results        *)
(* (collapsed, regiven); done says that the commits were collapsed.        *)
(***************************************************************************)
\* the commits of a frame
MaxCommits == 3

\* the changes the commit nodes make: [1 count 1] and [1 count 2] from the nodes
\* "insert" and "remove"
CommitChanges ==
  {Change(kind, N(1), S("count").x, v, n, 1, count) :
     kind \in {"Change", "RemoveChange"}, v \in {N(1), N(2)},
     n \in {S("insert").x, S("remove").x}, count \in {1, -1}}

CollapseInit ==
  /\ InitWith("tc")
  /\ unit = [T |-> [frameCommits |-> <<>>, framePartialCommits |-> <<>>], given |-> <<>>,
             collapsed |-> <<>>, regiven |-> <<>>, done |-> FALSE]

\* a commit node commits a change
CollapseCommit ==
  /\ ~unit.done
  /\ Len(unit.T.frameCommits) < MaxCommits
  /\ \E change \in CommitChanges : unit' = [unit EXCEPT !.T = commit(@, change)]
  /\ UNCHANGED runtime

\* the commits are collapsed, and collapsed again in another order
CollapseCommits ==
  /\ ~unit.done
  /\ unit.T.frameCommits # <<>>
  /\ LET frameCommits1 == unit.T.frameCommits
     IN \E p \in {q \in [DOMAIN frameCommits1 -> DOMAIN frameCommits1] :
                    \A i, j \in DOMAIN frameCommits1 : q[i] = q[j] => i = j} :
          LET given == [i \in DOMAIN frameCommits1 |-> frameCommits1[p[i]]]
          IN unit' = [unit EXCEPT !.given = given,
                                  !.collapsed = collapseCommits(frameCommits1).results,
                                  !.regiven = collapseCommits(given).results,
                                  !.done = TRUE]
  /\ UNCHANGED runtime

CollapseNext == CollapseCommit \/ CollapseCommits

CollapseSpec == CollapseInit /\ [][CollapseNext]_vars

(***************************************************************************)
(* The arrivals at a binary join: in every exec of the node a driver hands *)
(* it a left prefix, a right prefix or both, the results its left node and *)
(* its right node hold, in a transaction round at or before the rounds of  *)
(* the prefixes.  A prefix holds the key in register 0 and the register to *)
(* merge in register 1; register 2 is bound on the left only and tells the *)
(* left prefixes apart in the results.  The running count of a prefix      *)
(* stays in {0, 1} at every round.  unit holds the indexes of the node,    *)
(* the counts of the prefixes sent to the left and to the right (lefts,    *)
(* rights), the sum of the counts of the results by registers (net), and   *)
(* the last exec: its prefixes, its round and its results.                 *)
(***************************************************************************)
\* the execs of the node
MaxArrivals == 3

\* the left prefixes and the right prefixes, without round and count
ArrivalLefts == {<<N(1), undefined, N(1)>>, <<N(1), N(1), N(2)>>}
ArrivalRights == {<<N(1), N(1), undefined>>, <<N(1), N(2), undefined>>}

RECURSIVE Totalled(_, _)
\* the sums of the counts of results by registers, with those of results added
Totalled(net, results) ==
  IF results = <<>> THEN net
  ELSE LET h == hashPrefix(Head(results))
       IN Totalled((h :> (IF h \in DOMAIN net THEN net[h] ELSE 0) + PrefixCount(Head(results)))
                   @@ net, Tail(results))

\* the prefixes of a side in an exec at round at, and the counts with them sent
Arriving(hashes, counts, at) ==
  {<<>>} \cup
  {p \in {h \o <<r, count>> : h \in hashes, r \in at..MaxRound, count \in {1, -1}} :
     \A k \in 0..MaxRound :
       Running_At(Counted(counts, hashPrefix(p), PrefixRound(p), PrefixCount(p)),
                  hashPrefix(p), k) \in {0, 1}}

ArrivalInit ==
  /\ InitWith("tc")
  /\ unit = [state |-> NewFlowState(Pairing), lefts |-> <<>>, rights |-> <<>>, net |-> <<>>,
             left |-> <<>>, right |-> <<>>, round |-> 0, results |-> <<>>, calls |-> 0]

\* an exec of the node with a left prefix, a right prefix or both
ArrivalExec ==
  /\ unit.calls < MaxArrivals
  /\ \E at \in 0..MaxRound :
       \E left \in Arriving(ArrivalLefts, unit.lefts, at),
          right \in Arriving(ArrivalRights, unit.rights, at) :
         LET sent(counts, p) ==
               IF p = <<>> THEN counts
               ELSE Counted(counts, hashPrefix(p), PrefixRound(p), PrefixCount(p))
             called(o) ==
               unit' = [state |-> o.state, lefts |-> sent(unit.lefts, left),
                        rights |-> sent(unit.rights, right),
                        net |-> Totalled(unit.net, o.results), left |-> left,
                        right |-> right, round |-> at, results |-> o.results,
                        calls |-> unit.calls + 1]
         IN /\ left # <<>> \/ right # <<>>
            /\ called(BinaryJoinRight_exec(Pairing, unit.state,
                                           IF left = <<>> THEN <<>> ELSE <<left>>,
                                           IF right = <<>> THEN <<>> ELSE <<right>>, at))
  /\ UNCHANGED runtime

ArrivalNext == ArrivalExec

ArrivalSpec == ArrivalInit /\ [][ArrivalNext]_vars

(***************************************************************************)
(* The least fixpoint of a program of joins of scans with bind outputs,    *)
(* under set semantics: the reference the store is compared with.          *)
(***************************************************************************)
\* the facts one application of block b derives from the facts F
Consequences(b, F) ==
  LET join == b.nodes[1]
      outs == b.nodes[2].nodes
      regs == RegisterLookup(join)
      vals == UNION {{t[1], t[2], t[3]} : t \in F}
      val(f, asg) == IF isRegister(f) THEN asg[f.x] ELSE f.x
      holds(c, asg) ==
        \E t \in F : /\ (c.e.x = IGNORE_REG \/ t[1] = val(c.e, asg))
                     /\ (c.a.x = IGNORE_REG \/ t[2] = val(c.a, asg))
                     /\ (c.v.x = IGNORE_REG \/ t[3] = val(c.v, asg))
      sat == {asg \in [regs -> vals] : \A i \in DOMAIN join.constraints :
                                         holds(join.constraints[i], asg)}
  IN {<<val(outs[i].e, asg), val(outs[i].a, asg), val(outs[i].v, asg)>> :
        i \in DOMAIN outs, asg \in sat}

RECURSIVE LeastFixpoint(_, _)
LeastFixpoint(bs, F) ==
  LET G == F \cup UNION {Consequences(bs[i], F) : i \in DOMAIN bs}
  IN IF G = F THEN F ELSE LeastFixpoint(bs, G)

\* the triples the driver has inserted and not removed
BaseFacts == {t \in DOMAIN base : base[t] > 0}

\* the facts of the store
StoreFacts == PresentTriples(index, IGNORE_REG, IGNORE_REG, IGNORE_REG, IGNORE_REG)

\* C1: when exec finishes without hitting a limit, the net-positive facts of the
\* store are the least fixpoint of the program over the facts the driver has
\* inserted and not removed (transitive closure program)
C1_Fixpoint ==
  (program = "tc" /\ pc = "done" /\ diagnostic = "none")
    => StoreFacts = LeastFixpoint(blocks, BaseFacts)

(***************************************************************************)
(* Iteration limit                                                         *)
(***************************************************************************)
\* the changes of the transaction the blocks have been started on
Processed == IF pc \in {"blocks", "threw"} THEN changeIx + 1 ELSE changeIx

\* exec runs in the caller's thread to its end once it is called: weak fairness of
\* its steps. A step on the blocks is enabled exactly when pc = "blocks" (ExecBlock
\* and ExecInsert split on BlocksDone and each changes blockIx or changeIx), and
\* ExecFinish exactly when pc = "finish" (it changes pc), so their weak fairness is
\* written with these enabling conditions
FairSpec ==
  /\ Spec
  /\ WF_vars(ExecChange)
  /\ ([]<>(pc # "finish") \/ []<><<ExecFinish>>_vars)
  /\ ([]<>(pc # "blocks") \/ []<><<ExecBlock \/ ExecInsert>>_vars)

\* C2: exec runs the blocks on at most iterationLimit changes; it gives the loop
\* diagnostic exactly when iterationLimit changes were processed and a further one
\* is in the list, processes nothing after it, and every exec that was started
\* comes to its end
C2_IterationLimit ==
  /\ [](/\ Processed <= iterationLimit
        /\ (diagnostic = "loop") =>
             /\ pc \in {"finish", "done"}
             /\ changeIx = iterationLimit
             /\ changeIx < Len(changes)
        /\ (pc \in {"finish", "done"} /\ diagnostic = "none") => changeIx = Len(changes))
  /\ [](pc \in {"loop", "blocks", "finish"} => <>(pc \in {"done", "threw"}))

C2_Witness == program = "chain" /\ pc = "done" /\ diagnostic = "loop"

\* C3: a transaction stopped by the iteration limit leaves the index as it was
\* when the transaction was made
C3_StoreUnchanged == (pc = "done" /\ diagnostic = "loop") => index = index0

(***************************************************************************)
(* Invariant violations                                                    *)
(***************************************************************************)
\* C4: a transaction aborted by an output with an undefined slot leaves the index
\* as it was when the transaction was made
C4_IndexUntouched == (pc = "threw") => index = index0

(***************************************************************************)
(* Frames and commits                                                      *)
(***************************************************************************)
\* the elements of a sequence
Range(s) == {s[i] : i \in DOMAIN s}

\* the changes a step appends to the list of changes to process
NewChanges == SubSeq(changes', Len(changes) + 1, Len(changes'))

\* the queued changes of the rounds prepareRound has gone past
LateQueued ==
  LET RECURSIVE later(_)
      later(r) == IF r + 1 > Len(roundChanges) THEN 0
                  ELSE Len(roundChanges[r + 1]) + later(r + 1)
  IN queued - later(round + 1)

\* C5: a step promotes commits only when the change it finishes is the last of the
\* list, no round queue holds a change that was not taken and the queues of the
\* later rounds cancel out; the promotion resets the round; and in every other
\* step the changes that enter the list come from a round queue, never from the
\* commits of the frame
C5_PromotedWhenDrained ==
  [][/\ (frame' = frame + 1 /\ transaction' = transaction) =>
          /\ changeIx + 1 = Len(changes)
          /\ LateQueued = 0
          /\ \A r \in 1..Len(roundChanges) :
               r > round + 1 => collapseMultiplicity(roundChanges[r]).results = <<>>
          /\ round' = -1
          /\ lastFrame' = Len(changes)
          /\ frameCommits' = <<>> /\ framePartialCommits' = <<>>
          /\ \A i \in DOMAIN NewChanges : NewChanges[i].round >= 0
                                          /\ NewChanges[i].n \in {c.n : c \in Range(promoted')}
     /\ (frame' = frame /\ transaction' = transaction) =>
          \A i \in DOMAIN NewChanges :
            \E r \in DOMAIN roundChanges :
              NewChanges[i] \in Range(collapseMultiplicity(roundChanges[r]).results)]_vars

C5_Witness == frame >= 1 /\ pc = "blocks" /\ changeIx >= lastFrame

\* C6: the blocks run on the changes of at most frameLimit promoted frames
C6_FrameLimit == Cardinality(framesRun) <= frameLimit

\* the commits of triple t are a commit followed by its exact retraction
ExactlyRetracted(t, commits) ==
  \E i, j \in DOMAIN commits :
    /\ i < j
    /\ {k \in DOMAIN commits : <<commits[k].e, commits[k].a, commits[k].v>> = t} = {i, j}
    /\ commits[i].kind = "Change" /\ commits[j].kind = "RemoveChange"
    /\ commits[i].count > 0 /\ commits[j].count = 0 - commits[i].count

\* C7: when the commits of a frame hold a commit of a triple followed by its exact
\* retraction, what they collapse to holds no change of the triple, and the frame
\* the promotion opens gets no change of it
C7_CommitRetracted ==
  \A t \in {<<c.e, c.a, c.v>> : c \in Range(committed)} :
    ExactlyRetracted(t, committed) =>
      /\ \A c \in Range(promoted) : <<c.e, c.a, c.v>> # t
      /\ \A i \in DOMAIN changes :
           (frame >= 1 /\ i > lastFrame /\ changes[i].round = 0)
             => <<changes[i].e, changes[i].a, changes[i].v>> # t

C7_Witness ==
  /\ frame >= 1 /\ changeIx > lastFrame
  /\ \E t \in {<<c.e, c.a, c.v>> : c \in Range(committed)} : ExactlyRetracted(t, committed)

(***************************************************************************)
(* Order of the changes                                                    *)
(***************************************************************************)
\* the step opens round r: it takes the queue of r into the list of changes
Opens(r) ==
  /\ frame' = frame /\ transaction' = transaction
  /\ NewChanges # <<>>
  /\ NewChanges[1].round = r

\* the position of the first change of the triple of c in the sequence s
FirstOf(s, c) == CHOOSE i \in DOMAIN s : /\ CompareEAV(s[i], c) = 0
                                         /\ \A k \in 1..(i - 1) : CompareEAV(s[k], c) # 0

\* C8 as claimed: the changes of a round are processed in the order in which they
\* were emitted into its queue
C8_Fifo ==
  [][\A r \in 0..(Len(roundChanges) - 1) :
       Opens(r) =>
         \A k, l \in DOMAIN NewChanges :
           k < l => FirstOf(roundChanges[r + 1], NewChanges[k])
                      < FirstOf(roundChanges[r + 1], NewChanges[l])]_vars

\* C8: the changes of a round are processed in ascending order of (e, a, v), one
\* change per triple: the queue is sorted, and the changes of one triple are merged
\* into the first of them, which is dropped when the counts add up to zero
C8_SortedOrder ==
  [][\A r \in 0..(Len(roundChanges) - 1) :
       Opens(r) =>
         /\ \A k \in 1..(Len(NewChanges) - 1) : CompareEAV(NewChanges[k], NewChanges[k + 1]) < 0
         /\ \A k \in DOMAIN NewChanges :
              LET same == SelectSeq(roundChanges[r + 1],
                                    LAMBDA c : CompareEAV(c, NewChanges[k]) = 0)
              IN /\ same # <<>>
                 /\ NewChanges[k] = [same[1] EXCEPT !.count = GroupCount(same, 1, Len(same))]
         /\ \A i \in DOMAIN roundChanges[r + 1] :
              LET same == SelectSeq(roundChanges[r + 1],
                                    LAMBDA c : CompareEAV(c, roundChanges[r + 1][i]) = 0)
              IN GroupCount(same, 1, Len(same)) # 0
                   => \E k \in DOMAIN NewChanges : CompareEAV(NewChanges[k], same[1]) = 0]_vars

\* two changes of a round have been processed, the one emitted later first
C8_Witness ==
  \E i, j \in (lastFrame + 1)..changeIx :
    /\ i < j /\ changes[i].round = changes[j].round
    /\ \E k, l \in DOMAIN emitted :
         /\ k < l
         /\ emitted[k].round = changes[j].round /\ CompareEAV(emitted[k], changes[j]) = 0
         /\ emitted[l].round = changes[i].round /\ CompareEAV(emitted[l], changes[i]) = 0

\* the queue of round q holds no change, or holds changes that cancel out
Cancelled(q) ==
  q + 1 > Len(roundChanges) \/ collapseMultiplicity(roundChanges[q + 1]).results = <<>>

\* C9 as claimed: within a frame the round of the processed change never decreases,
\* and the round opened next is the lowest round above the current one whose queue
\* holds changes
C9_NearestNonEmpty ==
  [][/\ (frame' = frame /\ transaction' = transaction) => round' >= round
     /\ \A r \in 0..(Len(roundChanges) - 1) :
          Opens(r) =>
            /\ r > round
            /\ \A k \in DOMAIN NewChanges : NewChanges[k].round = r
            /\ \A q \in (round + 1)..(r - 1) : roundChanges[q + 1] = <<>>]_vars

\* C9: within a frame the round of the processed change never decreases; the round
\* opened next is the lowest round above the current one whose queued changes do not
\* cancel out, a round whose queued changes add up to zero for every triple being
\* passed over; and the list of changes runs out only when every round above the
\* current one is empty or cancels out
C9_RoundsAdvance ==
  [][/\ (frame' = frame /\ transaction' = transaction) => round' >= round
     /\ \A r \in 0..(Len(roundChanges) - 1) :
          Opens(r) =>
            /\ r > round
            /\ ~Cancelled(r)
            /\ \A k \in DOMAIN NewChanges : NewChanges[k].round = r
            /\ \A q \in (round + 1)..(r - 1) : Cancelled(q)
     /\ (/\ frame' = frame /\ transaction' = transaction
         /\ pc # "loop" /\ pc' = "loop" /\ changeIx' = Len(changes')) =>
          \A q \in (round + 1)..(Len(roundChanges) - 1) : Cancelled(q)]_vars

\* round 2 is being processed after round 1, whose changes cancelled out
C9_Witness ==
  /\ pc = "blocks" /\ round = 2
  /\ Len(roundChanges) >= 3 /\ roundChanges[2] # <<>>
  /\ \A i \in DOMAIN changes : i > lastFrame => changes[i].round # 1

\* C10: the blocks run on a change in declaration order; the index is given the
\* change once, after the last block, and is not written while the blocks run
C10_BlocksThenInsert ==
  /\ [](/\ pc \in {"blocks", "threw"} => ran = [i \in 1..(blockIx - 1) |-> i]
        /\ inserted = SubSeq(changes, 1, changeIx))
  /\ [][/\ (index' # index) =>
             /\ ran = [i \in 1..Len(blocks) |-> i]
             /\ index' = IndexInsert(index, changes[changeIx + 1])
             /\ changeIx' = changeIx + 1
        /\ (ran' # ran) => index' = index]_vars

C10_Witness == pc = "loop" /\ Len(blocks) >= 2 /\ changeIx >= 2

\* the orderings of the sequence of blocks blks
Orderings(blks) ==
  {[i \in DOMAIN blks |-> blks[p[i]]] :
     p \in {q \in [DOMAIN blks -> DOMAIN blks] : \A i, j \in DOMAIN blks : q[i] = q[j] => i = j}}

\* the net-positive facts of the store r.index, as raw values
FactsOf(r) ==
  {<<Reverse(r.interner, t[1]), Reverse(r.interner, t[2]), Reverse(r.interner, t[3])>> :
     t \in PresentTriples(r.index, IGNORE_REG, IGNORE_REG, IGNORE_REG, IGNORE_REG)}

\* C11: whenever a transaction is about to be executed, the net-positive facts of
\* the store exec leaves are the same for every ordering of the blocks
C11_BlockOrder ==
  (pc = "input" /\ roundChanges # <<>>) =>
    \A o \in Orderings(blocks) : FactsOf(exec(o, TOf, index)) = FactsOf(exec(blocks, TOf, index))

\* a transaction of a program of several blocks, an ordering of which derives facts
\* and gives other IDs to the values the blocks compute
C11_Witness ==
  /\ pc = "input" /\ roundChanges # <<>> /\ Len(blocks) >= 2
  /\ \E o \in Orderings(blocks) :
       /\ o # blocks
       /\ Cardinality(FactsOf(exec(o, TOf, index))) >= 3
       /\ exec(o, TOf, index).interner # exec(blocks, TOf, index).interner

(***************************************************************************)
(* C12: exports                                                            *)
(***************************************************************************)
\* the running count of an export key
Running(xi, beav) == IF beav \in DOMAIN xi THEN xi[beav] ELSE 0

\* the counts of the changes of key beav the export handler is given
ExportedOf(exported, beav) ==
  IF beav[1] \in DOMAIN exported
  THEN LET cs == exported[beav[1]]
       IN [i \in {j \in DOMAIN cs : <<cs[j].e, cs[j].a, cs[j].v>> = <<beav[2], beav[3], beav[4]>>}
             |-> cs[i].count]
  ELSE <<>>

\* the keys the watch nodes of the programs can export
ExportKeys == {<<1, N(1), S("count").x, S("tc").x>>, <<1, N(2), S("count").x, S("tc").x>>}

\* C12: when exec ends, every export key is exported +1 exactly when its running
\* count goes from 0 to a positive count, -1 exactly when it goes from a positive
\* count to 0, and not at all otherwise; and a key whose running count has been
\* negative is never exported again.
C12_Exports ==
  [][(pc = "finish" /\ pc' = "done") =>
       \A beav \in ExportKeys :
         LET old == Running(exportIndex, beav)
             neue == Running(exportIndex', beav)
             given == ExportedOf(exportedChanges', beav)
         IN /\ (old = 0 /\ neue > 0) => (DOMAIN given # {} /\ \A i \in DOMAIN given : given[i] = 1)
            /\ (old > 0 /\ neue = 0) => (DOMAIN given # {} /\ \A i \in DOMAIN given : given[i] = -1)
            /\ ~(old = 0 /\ neue > 0) /\ ~(old > 0 /\ neue = 0) => DOMAIN given = {}
            /\ beav \in negative => DOMAIN given = {}]_vars

(***************************************************************************)
(* C13: program mutation                                                   *)
(***************************************************************************)
\* the net-positive facts of an index
Facts(ix) == PresentTriples(ix, IGNORE_REG, IGNORE_REG, IGNORE_REG, IGNORE_REG)

\* the last block change removed the block the one before it added, its exec has
\* ended, and the driver sent no input since the block was added
AddedThenRemoved ==
  /\ pc = "done"
  /\ Len(mutations) >= 2
  /\ mutations[Len(mutations) - 1].added
  /\ ~mutations[Len(mutations)].added
  /\ mutations[Len(mutations)].block = mutations[Len(mutations) - 1].block
  /\ mutations[Len(mutations) - 1].inputs = Len(inputs)

\* C13: when a block is added with a BlockChangeTransaction and removed with the
\* next one, the facts of the store after the removal are the facts it held before
\* the block was added, for the block of a scan and for the block of a static move
C13_AddRemove ==
  AddedThenRemoved => Facts(index) = Facts(mutations[Len(mutations) - 1].index)

(***************************************************************************)
(* C14, C15, C16: the interner                                             *)
(***************************************************************************)
\* the raw values that have an ID
Live(I) == {raw \in RawValues : InternerGet(I, raw) # undefined}

\* C14: after any sequence of intern calls, no two of the raw values interned have
\* the same ID (so the string "1" and the number 1 have different IDs), every one of
\* them has the ID of its first intern, reverse of its ID is the value, and reverse
\* of the ID intern has just returned is the value interned
C14_InternReverse ==
  unit.releases = 0 =>
    /\ \A v1, v2 \in Live(unit.interner) :
         (InternerGet(unit.interner, v1) = InternerGet(unit.interner, v2)) <=> (v1 = v2)
    /\ Live(unit.interner) = {unit.order[i] : i \in DOMAIN unit.order}
    /\ \A raw \in Live(unit.interner) :
         /\ unit.interner.IDs[InternerGet(unit.interner, raw)] = raw
         /\ raw \in Live(unit.before) =>
              InternerGet(unit.interner, raw) = InternerGet(unit.before, raw)
    /\ unit.op = "intern" =>
         /\ unit.id = InternerGet(unit.interner, unit.value)
         /\ Reverse(unit.interner, unit.id) = unit.value[2]

C14_Witness ==
  /\ unit.releases = 0
  /\ unit.op = "intern"
  /\ {<<"number", 1>>, <<"string", "1">>} \subseteq Live(unit.interner)
  /\ unit.refs[unit.value] = 2

\* C15: every ID intern returns is a positive integer, and in the runs without a
\* release the raw values have consecutive IDs in the order of their first intern
C15_PositiveDense ==
  /\ unit.op = "intern" => unit.id > 0
  /\ unit.releases = 0 =>
       \A i \in DOMAIN unit.order :
         i > 1 => InternerGet(unit.interner, unit.order[i])
                    = InternerGet(unit.interner, unit.order[i - 1]) + 1

\* the last call was the release of the last reference to unit.value
Reclaimed == unit.op = "release" /\ unit.refs[unit.value] = 0

\* the last call was the intern of a value without an ID, with an ID on the free list
Reused ==
  /\ unit.op = "intern"
  /\ InternerGet(unit.before, unit.value) = undefined
  /\ unit.before.IDFreeList # <<>>

\* C16: when a raw value has been released as often as it was interned, its ID is
\* reclaimed (get of the value is undefined, reverse of the ID is cleared, the ID is
\* on the free list), and the next intern of a value without an ID returns the ID
\* last put on the free list and leaves the counter as it is, whatever the ID
C16_Reclaimed ==
  /\ Reclaimed =>
       /\ InternerGet(unit.interner, unit.value) = undefined
       /\ unit.id \notin DOMAIN unit.interner.IDs
       /\ unit.interner.IDFreeList = Append(unit.before.IDFreeList, unit.id)
  /\ Reused =>
       /\ unit.id = unit.before.IDFreeList[Len(unit.before.IDFreeList)]
       /\ unit.interner.currentID = unit.before.currentID

\* the values branch b of the choice matches for record x at round r
Matches(b, x, r) ==
  {t[3] : t \in {t \in ChoiceTriples :
                   /\ t[1] = x
                   /\ t[2] = (IF b = 1 THEN S("a1").x ELSE S("a2").x)
                   /\ Running_At(unit.facts, t, r) = 1}}

\* x is a record of the outer scope at round r
IsRecord(x, r) == Running_At(unit.facts, <<x, S("a3").x, N(1)>>, r) = 1

\* the tuples <<x, v>> a branch or the choose can give
ChoiceTuples == {<<t[1], t[3]>> : t \in {t \in ChoiceTriples : t[2] # S("a3").x}}

\* C17: at every round the tuples net-present in the results of a choose with two
\* branches are, each once, those of the first branch for the records the first
\* branch matches and those of the second branch for the other records, and the
\* second branch has a tuple net-present only for a record the first does not match
C17_Exclusive ==
  \A r \in 0..MaxRound : \A tuple \in ChoiceTuples :
    LET x == tuple[1]
        first == IsRecord(x, r) /\ tuple[2] \in Matches(1, x, r)
        second == IsRecord(x, r) /\ Matches(1, x, r) = {} /\ tuple[2] \in Matches(2, x, r)
    IN /\ Running_At(unit.net, tuple, r) = (IF first \/ second THEN 1 ELSE 0)
       /\ Running_At(unit.netBy[1], tuple, r) = (IF first THEN 1 ELSE 0)
       /\ Running_At(unit.netBy[2], tuple, r) = (IF second THEN 1 ELSE 0)

\* record 1 is matched by both branches at round 0, the fact of the second branch
\* was asserted before that of the first, the fact of the first branch has been
\* retracted and asserted again, and the tuple of the first branch is the result
C17_Witness ==
  /\ IsRecord(N(1), 0)
  /\ Matches(1, N(1), 0) # {} /\ Matches(2, N(1), 0) # {}
  /\ \E i, j \in DOMAIN unit.order :
       i < j /\ unit.order[i][2] = S("a2").x /\ unit.order[j][2] = S("a1").x
  /\ <<N(1), S("a1").x, N(3)>> \in unit.again
  /\ Running_At(unit.net, <<N(1), N(3)>>, 0) = 1

\* the members of group g that contribute at round r
Contributors(g, r) == {t \in Tagged : t[1] = g /\ Running_At(unit.facts, t, r) > 0}

\* the result prefixes of group g the node has emitted, by register values
ResultsOf(g) == {key \in DOMAIN unit.net : key[1] = g}

\* the result prefixes of group g that are net-present at round r
NetPresent(g, r) == {key \in ResultsOf(g) : Running_At(unit.net, key, r) # 0}

\* C18: at every round, a group with contributing projections has exactly one
\* net-present result prefix, with count 1: each toggle retracts the previous
\* result and inserts the new one from the round of the change forward
C18_OneResultPerRound ==
  \A g \in TagGroups : \A r \in 0..MaxRound :
    Contributors(g, r) # {} =>
      /\ Cardinality(NetPresent(g, r)) = 1
      /\ \A key \in NetPresent(g, r) : Running_At(unit.net, key, r) = 1

\* C19: a group without contributing prefixes has no output: at every round at
\* which every contribution to the group has been retracted, the net count of
\* every result prefix of the group is zero
C19_EmptyGroupSilent ==
  \A g \in TagGroups : \A r \in 0..MaxRound :
    Contributors(g, r) = {} => NetPresent(g, r) = {}

\* the number a sort value stands for
SortNumber(id) == IF id = SortInterner.strings["1"] THEN 1 ELSE SortInterner.IDs[id][2]

\* e comes before f: register 1 upwards, then register 2 downwards
SortsBefore(e, f) ==
  \/ SortNumber(e[2]) < SortNumber(f[2])
  \/ SortNumber(e[2]) = SortNumber(f[2]) /\ SortNumber(e[3]) > SortNumber(f[3])

\* the 1-based position of the element at place i of arrival in the ordered list:
\* after the elements that come before it and the equal ones that arrived earlier
PositionOf(arrival, i) ==
  1 + Cardinality({j \in DOMAIN arrival :
                     \/ SortsBefore(arrival[j], arrival[i])
                     \/ j < i /\ ~SortsBefore(arrival[i], arrival[j])})

\* the ranks of element t that are net-present at round r, each with its count
RanksOf(t, r) ==
  {<<unit.interner.IDs[key[4]][2], Running_At(unit.net, key, r)>> :
     key \in {k \in DOMAIN unit.net : SubSeq(k, 1, 3) = t /\ Running_At(unit.net, k, r) # 0}}

\* the results of the last call for the element e with rank k and count c
Emitted(e, k, c) ==
  {i \in DOMAIN unit.last.results :
     LET p == unit.last.results[i]
     IN SubSeq(p, 1, 3) = e /\ unit.interner.IDs[p[4]][2] = k /\ PrefixCount(p) = c}

\* the last call added an element that comes first in the group
AddedFirst ==
  /\ unit.last.count = 1
  /\ \A i \in DOMAIN unit.last.before :
       unit.last.before[i] # unit.last.element
         /\ SortsBefore(unit.last.element, unit.last.before[i])

\* C20: while all prefixes of a sort group have one round, every element of the
\* group has exactly one net-present rank, its 1-based position in the list
\* ordered by the sort registers and directions with equal elements in the order
\* of their arrival, and an element that is not in the group has none; adding a
\* new first element emits one retract and one insert for each existing element,
\* moving its rank up by one, and nothing else but the insert of the new element
C20_Ranked ==
  Cardinality(unit.rounds) = 1 =>
    /\ \A r \in unit.rounds :
         /\ \A i \in DOMAIN unit.arrival :
              RanksOf(unit.arrival[i], r) = {<<PositionOf(unit.arrival, i), 1>>}
         /\ \A t \in SortElements :
              (\A i \in DOMAIN unit.arrival : unit.arrival[i] # t) => RanksOf(t, r) = {}
    /\ AddedFirst =>
         /\ Len(unit.last.results) = 1 + 2 * Len(unit.last.before)
         /\ Cardinality(Emitted(unit.last.element, 1, 1)) = 1
         /\ \A i \in DOMAIN unit.last.before :
              LET e == unit.last.before[i]
                  k == PositionOf(unit.last.before, i)
              IN /\ Cardinality(Emitted(e, k, -1)) = 1
                 /\ Cardinality(Emitted(e, k + 1, 1)) = 1

\* a new first element was added to two existing elements, after a removal, with
\* two equal elements in the group, all at one round
C20_Witness ==
  /\ Cardinality(unit.rounds) = 1
  /\ AddedFirst
  /\ Len(unit.last.before) = 2
  /\ unit.removed
  /\ \E i, j \in DOMAIN unit.arrival :
       /\ i < j
       /\ ~SortsBefore(unit.arrival[i], unit.arrival[j])
       /\ ~SortsBefore(unit.arrival[j], unit.arrival[i])
       /\ RanksOf(unit.arrival[j], CHOOSE r \in unit.rounds : TRUE)
            = {<<PositionOf(unit.arrival, i) + 1, 1>>}

(***************************************************************************)
(* C21, C30: the static join of the program mutation                       *)
(***************************************************************************)
\* the block of the program mutation whose join is one static move
StaticBlock == Mutation[2]

\* the results the join of StaticBlock pushes when the block runs on input in the
\* current state
StaticResults(input) ==
  JoinNode_exec(StaticBlock.nodes[1], StaticBlock.nodes[1] \in dormant, index, GlobalInterner,
                input, InitialPrefix(StaticBlock.totalRegisters), round).results

\* the step runs BLOCK_ADD (added) or BLOCK_REMOVE through StaticBlock
StaticMutation(added) ==
  /\ pc = "mutate" /\ pc' # "mutate"
  /\ mutations[Len(mutations)].block = StaticBlock
  /\ mutations[Len(mutations)].added = added

\* the step runs StaticBlock on a change of the transaction
StaticOrdinary ==
  /\ pc = "blocks" /\ blockIx' = blockIx + 1
  /\ blocks[blockIx] = StaticBlock

\* C21: every BLOCK_ADD that runs through the block of a static join makes the
\* join push its result, one prefix with register 0 bound and count 1, and every
\* run of the block on an ordinary input change afterwards pushes nothing
C21_OncePerAdd ==
  [][/\ StaticMutation(TRUE) =>
          /\ Len(StaticResults(BLOCK_ADD)) = 1
          /\ SubSeq(StaticResults(BLOCK_ADD)[1], 1, 3) = <<N(5), 0, 1>>
     /\ StaticOrdinary => StaticResults(changes[changeIx + 1]) = <<>>]_vars

\* C30: a BLOCK_REMOVE that runs through the block of a static join that is
\* dormant makes the join push its result with count -1 and leaves the join not
\* dormant, so that the next BLOCK_ADD pushes the result again
C30_RemoveResets ==
  [][(StaticMutation(FALSE) /\ StaticBlock.nodes[1] \in dormant) =>
       /\ Len(StaticResults(BLOCK_REMOVE)) = 1
       /\ SubSeq(StaticResults(BLOCK_REMOVE)[1], 1, 3) = <<N(5), 0, -1>>
       /\ StaticBlock.nodes[1] \notin dormant']_vars

(* C22: output nodes on a prefix with an undefined slot *)
\* the last call of the driver left a slot of the node undefined that is a
\* register other than the ignore register
UndefinedSlot ==
  LET node == IF unit.node.type = "output" THEN unit.node.nodes[1] ELSE unit.node
  IN /\ unit.calls > 0
     /\ \E field \in {node.e, node.a, node.v, node.n} :
          isRegister(field) /\ Resolve(field, unit.prefix) = undefined

\* what a transaction has emitted: outputs, commits and exports
Emissions(T) == <<T.emitted, T.frameCommits, T.framePartialCommits, T.exportedChanges>>

\* C22: a call of an output node of any kind on a prefix that leaves one of its
\* slots undefined throws and emits no change
C22_UndefinedThrows ==
  UndefinedSlot => (unit.T.threw /\ Emissions(unit.T) = Emissions(unit.before))

(* C23: the proposal a step of generic join enumerates *)
\* the positions of the proposals of the last step that are not skipped
OpenProposals == {i \in DOMAIN unit.proposals : ~unit.proposals[i].skip}

\* C23: a step of generic join whose open proposals are all non-empty chooses
\* an open proposal of minimum cardinality, and of the proposals of that
\* cardinality the first in the constraint list
C23_MinimumFirst ==
  (/\ unit.steps > 0
   /\ OpenProposals # {}
   /\ \A i \in OpenProposals : unit.proposals[i].cardinality > 0)
    => /\ unit.best \in OpenProposals
       /\ \A j \in OpenProposals :
            /\ unit.proposals[unit.best].cardinality <= unit.proposals[j].cardinality
            /\ unit.proposals[unit.best].cardinality = unit.proposals[j].cardinality
                 => unit.best <= j

\* a step chose the first of two open proposals of the same cardinality
C23_Witness ==
  /\ unit.steps > 0
  /\ OpenProposals = {1, 2}
  /\ unit.proposals[1].cardinality = unit.proposals[2].cardinality
  /\ unit.proposals[1].cardinality > 1
  /\ unit.best = 1

\* a step chose the second proposal, of a smaller cardinality than the first
C23_Second ==
  /\ unit.steps > 0
  /\ OpenProposals = {1, 2}
  /\ unit.proposals[2].cardinality < unit.proposals[1].cardinality
  /\ unit.proposals[2].cardinality > 0
  /\ unit.best = 2

(* C24: the combinations of the affected constraints *)
\* the constraints of the join of the last call that its input affects
Affected == {i \in DOMAIN unit.join.constraints : IsAffected(unit.join.constraints[i], unit.input)}

\* the values the input gives to register o through the scans of X
InputValues(X, o) ==
  {InputFields(unit.input)[f] : f \in {g \in 1..4 : \E i \in X :
     ScanFields(unit.join.constraints[i])[g] = Register(o)}}

\* the input binds a register of the scans of X to two different values
Conflicting(X) == \E o \in 0..2 : Cardinality(InputValues(X, o)) > 1

RECURSIVE BoundFrom(_, _, _)
\* prefix with the registers from o on that the scans of X hold bound to the input
BoundFrom(X, prefix, o) ==
  IF o > 2 THEN prefix
  ELSE BoundFrom(X, IF InputValues(X, o) = {} THEN prefix
                    ELSE Set(prefix, o, CHOOSE value \in InputValues(X, o) : TRUE),
                 o + 1)

\* the empty prefix with the registers of the scans of X bound to the input
BoundTo(X) == BoundFrom(X, InitialPrefix(3), 0)

\* what the combination X of affected constraints contributes
Contribution(X) ==
  IF Conflicting(X) THEN <<>>
  ELSE applyCombination(unit.join, X, unit.before, StartInterner, unit.input, BoundTo(X),
                        unit.input.round, unit.input.count).results

RECURSIVE Contributions(_)
\* the contributions of the combinations of the set combos, one after the other
Contributions(combos) ==
  IF combos = {} THEN <<>>
  ELSE LET X == CHOOSE X \in combos : TRUE
       IN Contribution(X) \o Contributions(combos \ {X})

\* how often x occurs in the sequence s
Occurrences(s, x) == Cardinality({i \in DOMAIN s : s[i] = x})

\* C24: the results of a call of a join on an ordinary input are the results of
\* every non-empty subset of its affected constraints, each applied once, where a
\* subset that binds a register to two values contributes nothing
C24_EverySubsetOnce ==
  unit.calls > 0 =>
    LET expected == Contributions(SUBSET Affected \ {{}})
    IN \A x \in Range(expected) \cup Range(unit.results) :
         Occurrences(unit.results, x) = Occurrences(expected, x)

\* a call with two affected constraints in which the combination of both was
\* pruned and each of the two others produced a result
C24_Witness ==
  /\ unit.calls > 0
  /\ Affected = {1, 2}
  /\ Conflicting({1, 2})
  /\ Contribution({1}) # <<>>
  /\ Contribution({2}) # <<>>
  /\ Len(unit.results) = Len(Contribution({1})) + Len(Contribution({2}))

(* C25: the rounds and counts of the results of a join *)
\* the diffs of scan i of the join of the last call on the registers of prefix
DiffsOf(i, prefix) ==
  LET c == unit.join.constraints[i]
  IN IndexGetDiffs(unit.before, Resolve(c.e, prefix), Resolve(c.a, prefix),
                   Resolve(c.v, prefix), Resolve(c.n, prefix))

\* what a scan with the diffs rounds can give to a result at the round current:
\* the signed sum of its entries up to current, at current, when that is not 0,
\* or the sign of one later entry at the round of that entry
Attributions(rounds, current) ==
  LET upTo == {k \in DOMAIN rounds : Abs(rounds[k]) - 1 <= current}
      sign(k) == IF rounds[k] > 0 THEN 1 ELSE -1
      sum == Cardinality({k \in upTo : rounds[k] > 0}) - Cardinality({k \in upTo : rounds[k] < 0})
  IN (IF sum = 0 THEN {} ELSE {[round |-> current, count |-> sum]})
       \cup {[round |-> Abs(rounds[k]) - 1, count |-> sign(k)] : k \in DOMAIN rounds \ upTo}

RECURSIVE MaxRoundOf(_, _), ProductOf(_, _)
\* the maximum of the rounds and the product of the counts of the attributions
\* chosen[i] of the scans i of the set scans
MaxRoundOf(chosen, scans) ==
  IF scans = {} THEN 0
  ELSE LET i == CHOOSE i \in scans : TRUE
       IN Max(chosen[i].round, MaxRoundOf(chosen, scans \ {i}))
ProductOf(chosen, scans) ==
  IF scans = {} THEN 1
  ELSE LET i == CHOOSE i \in scans : TRUE
       IN chosen[i].count * ProductOf(chosen, scans \ {i})

\* the result prefix has the round and the count of the combination X of input
\* scans with one attribution of every other scan
Attributed(prefix, X) ==
  LET others == DOMAIN unit.join.constraints \ X
      choices == UNION {Attributions(DiffsOf(i, prefix), unit.input.round) : i \in others}
  IN \E chosen \in [others -> choices \cup {[round |-> 0, count |-> 0]}] :
       /\ \A i \in others : chosen[i] \in Attributions(DiffsOf(i, prefix), unit.input.round)
       /\ PrefixRound(prefix) = Max(unit.input.round, MaxRoundOf(chosen, others))
       /\ PrefixCount(prefix) = unit.input.count * ProductOf(chosen, others)

\* C25: every result of a call of a join is fully bound, and its round and count
\* are those of a combination of input scans with an attribution of every scan the
\* input was not applied to: the round is the maximum of the round of the input
\* and the rounds of the attributions, the count the product of the count of the
\* input and the counts of the attributions
C25_RoundAndCount ==
  unit.calls > 0 =>
    \A k \in DOMAIN unit.results :
      /\ \A o \in RegisterLookup(unit.join) : Get(unit.results[k], o) # undefined
      /\ \E X \in SUBSET Affected \ {{}} :
           /\ ~Conflicting(X)
           /\ \A o \in 0..2 : InputValues(X, o) \subseteq {Get(unit.results[k], o)}
           /\ Attributed(unit.results[k], X)

\* a result of round 1 of the retraction of an edge at round 0: the other scan
\* matched an edge inserted at round 1
C25_Witness ==
  /\ unit.calls > 0
  /\ unit.input.round = 0
  /\ unit.input.count = -1
  /\ \E k \in DOMAIN unit.results :
       PrefixRound(unit.results[k]) = 1 /\ PrefixCount(unit.results[k]) = -1

(* C26: the results of an arrival at a binary join *)
\* the counts of the other side before the last call
OtherSide == IF unit.onLeft THEN unit.rights ELSE unit.lefts

\* the entries of the other side with the key of the last prefix: for every
\* prefix the sum of its counts up to the round of the call, at that round, and
\* its count at every later round
PairEntries ==
  LET same == {h \in DOMAIN OtherSide : h[1] = unit.prefix[1]}
  IN {[prefix |-> h, round |-> unit.round, count |-> Running_At(OtherSide, h, unit.round)] :
        h \in same}
     \cup {[prefix |-> h, round |-> r, count |-> OtherSide[h][r]] :
             h \in same, r \in (unit.round + 1)..MaxRound}

\* the merge register is bound to two values on the two sides
PairConflict(entry) ==
  LET left == IF unit.onLeft THEN unit.prefix[2] ELSE entry.prefix[2]
      right == IF unit.onLeft THEN entry.prefix[2] ELSE unit.prefix[2]
  IN left # undefined /\ left # right

\* the result of the last prefix and an entry: the key, the value of the right,
\* the later of the two rounds and the product of the two counts
PairResult(entry) ==
  <<unit.prefix[1], IF unit.onLeft THEN entry.prefix[2] ELSE unit.prefix[2],
    Max(PrefixRound(unit.prefix), entry.round), PrefixCount(unit.prefix) * entry.count>>

\* the entries that give a result
Pairs == {entry \in PairEntries : entry.count # 0 /\ ~PairConflict(entry)}

\* C26: the results of an arrival on one side of a binary join are one result
\* for every entry of the other side with the same key and no conflicting merge
\* register, with the later round and the product of the counts, and nothing else
C26_OnePerEntry ==
  unit.calls > 0 =>
    /\ Len(unit.results) = Cardinality(Pairs)
    /\ \A x \in Range(unit.results) \cup {PairResult(entry) : entry \in Pairs} :
         Occurrences(unit.results, x)
           = Cardinality({entry \in Pairs : PairResult(entry) = x})

\* a left arrival that met two right entries of its key, one of them with a
\* conflicting merge register, and gave the result of the other
C26_Witness ==
  /\ unit.calls > 0
  /\ unit.onLeft
  /\ \E entry \in PairEntries : entry.count # 0 /\ PairConflict(entry)
  /\ Cardinality(Pairs) = 1
  /\ Len(unit.results) = 1

(* C28: the rounds ZeroingIterator reports *)
RECURSIVE Cumulative(_, _)
\* the sum of the counts of the rounds 0..r
Cumulative(counts, r) == IF r < 0 THEN 0 ELSE counts[r] + Cumulative(counts, r - 1)

RECURSIVE Transitions(_, _, _)
\* the rounds from r on at which the right side, with the rounds up to minRound
\* folded into minRound, is or becomes empty (count 1) or becomes non-empty
\* (count -1)
Transitions(counts, minRound, r) ==
  IF r > LastRound THEN <<>>
  ELSE LET empty == Cumulative(counts, r) = 0
           was == IF r = minRound THEN FALSE ELSE Cumulative(counts, r - 1) = 0
       IN (IF empty # was THEN <<<<r, IF empty THEN 1 ELSE -1>>>> ELSE <<>>)
          \o Transitions(counts, minRound, r + 1)

\* C28: an iteration over the counts of a key from a minimum round reports the
\* minimum round with count 1 when the sum of the counts up to it is 0, and after
\* it exactly the rounds at which the sum of the counts becomes 0, with count 1,
\* or stops being 0, with count -1
C28_ExactTransitions ==
  unit.iterated => unit.reports = Transitions(unit.sent, unit.minRound, unit.minRound)

\* the sums of the counts never fall below 0
NeverNegative == \A r \in 0..LastRound : Cumulative(unit.sent, r) >= 0

\* the same for counts whose sums never fall below 0
ExactWithoutNegativeSums ==
  (unit.iterated /\ NeverNegative)
    => unit.reports = Transitions(unit.sent, unit.minRound, unit.minRound)

\* an iteration over counts with a negative entry that reported a round at which
\* the right side becomes empty and a later round at which it becomes non-empty
ExactWithNegativeEntry ==
  /\ unit.iterated
  /\ NeverNegative
  /\ \E r \in 0..LastRound : unit.sent[r] < 0
  /\ \E i \in DOMAIN unit.reports : unit.reports[i][2] = 1 /\ unit.reports[i][1] > unit.minRound
  /\ unit.reports # <<>> /\ unit.reports[Len(unit.reports)][2] = -1

(* C27: the net results of an antijoin *)
\* the right prefixes of the key that are present at round r
RightPresent(key, r) == {h \in AntiRights : h[1] = key /\ Running_At(unit.rights, h, r) > 0}

\* C27: after every arrival, at every round, a left prefix is in the net results
\* of the antijoin with the count it has on the left when no right prefix of its
\* key is present at that round, and not at all otherwise
C27_NetPresent ==
  \A h \in AntiLefts, r \in 0..MaxRound :
    Running_At(unit.net, h, r)
      = IF RightPresent(h[1], r) = {} THEN Running_At(unit.lefts, h, r) ELSE 0

\* a right prefix was retracted and the antijoin emitted the two left prefixes
\* of its key again
C27_Witness ==
  /\ unit.calls > 0
  /\ ~unit.onLeft
  /\ PrefixCount(unit.prefix) = -1
  /\ Len(unit.results) = 2
  /\ \A k \in DOMAIN unit.results : PrefixCount(unit.results[k]) = 1

(* C29: contributions that take the total of a projection below 0 *)
\* C29: a contribution that takes the total of its projection, up to its round,
\* below 0 makes the aggregate or sort node throw, whatever the total was before
C29_NegativeThrows == (unit.calls > 0 /\ unit.total + unit.count < 0) => unit.thrown

\* the same for a projection whose total was 0
ThrowsFromZero ==
  (unit.calls > 0 /\ unit.total = 0 /\ unit.total + unit.count < 0) => unit.thrown

\* a node threw
Threw == unit.calls > 0 /\ unit.thrown
(***************************************************************************)
(* Changes as values                                                       *)
(***************************************************************************)
\* C31: a change is not modified once it is made: the changes that sit in the
\* round queues are, each as often as it was emitted, the changes output put
\* there in the frame
C31_Immutable ==
  \A r \in DOMAIN roundChanges :
    \A i \in DOMAIN roundChanges[r] :
      Occurrences(roundChanges[r], roundChanges[r][i])
        = Occurrences(emitted, roundChanges[r][i])

(***************************************************************************)
(* The left prefixes of a union and of a choose                            *)
(***************************************************************************)
\* the results of the run of a join node of the last call on the prefixes
RunsOf(join, prefixes) ==
  Flatten(JoinNode_over(join, unit.before.ix, StartInterner, unit.input, prefixes,
                        unit.input.round, 1))

\* the results the left node gives in the last call, run once on the prefix
LeftRun == RunsOf(unit.node.left, <<InitialPrefix(2)>>)

\* the binary join of branch b and its state in the state st of the node
BinaryJoinOf(b) ==
  IF unit.node.branches[b].type = "antijoin" THEN unit.node.branches[b].left
  ELSE unit.node.branches[b]
BinaryStateOf(st, b) ==
  IF unit.node.type = "union" THEN st.branches[b]
  ELSE IF unit.node.branches[b].type = "antijoin" THEN st[b].join
  ELSE st[b]

RECURSIVE InsertedAll(_, _, _, _)
\* the intermediate index held with each of the prefixes inserted once under its key
InsertedAll(keyOnly, held, keyRegisters, prefixes) ==
  IF prefixes = <<>> THEN held
  ELSE LET key == CreateKeyFunction(keyRegisters, Head(prefixes))
       IN InsertedAll(keyOnly,
                      IF keyOnly THEN KeyOnlyIntermediateIndex_insert(held, key, Head(prefixes))
                      ELSE IntermediateIndex_insert(held, key, Head(prefixes)),
                      keyRegisters, Tail(prefixes))

C32_Taken ==
  /\ unit.calls > 0 /\ unit.node.type = "choose"
  /\ LeftRun # <<>>
  /\ unit.by[1] # <<>>

(***************************************************************************)
(* The proposals of function constraints                                   *)
(***************************************************************************)
\* the last call was a propose that gave a proposal to take
Proposes == unit.op = "propose" /\ ~unit.proposal.skip

\* the inputs of the constraint of the last call are bound and one of its
\* outputs is not
Ready ==
  /\ \A i \in DOMAIN unit.constraint.args :
       Resolve(unit.constraint.args[i], unit.prefix) # undefined
  /\ \E i \in DOMAIN unit.constraint.returns :
       Resolve(unit.constraint.returns[i], unit.prefix) = undefined

\* C33: a function constraint proposes only when all its inputs are bound and
\* one of its outputs is unbound, and its proposal has the cardinality 1 when
\* its function was registered without an estimator and the value of the
\* estimator when it was registered with one
C33_Estimated ==
  Proposes =>
    /\ Ready
    /\ unit.proposal.cardinality
         = (IF "estimate" \in DOMAIN unit.setups[unit.constraint.name]
            THEN unit.setups[unit.constraint.name].estimate
            ELSE 1)

\* a function constraint proposes only when all its inputs are bound and one of
\* its outputs is unbound, and its proposal has the cardinality 1
ProposesOne == Proposes => Ready /\ unit.proposal.cardinality = 1

\* a constraint of a function registered with an estimator gave a proposal
Estimated == Proposes /\ "estimate" \in DOMAIN unit.setups[unit.constraint.name]

(***************************************************************************)
(* Export errors                                                           *)
(***************************************************************************)
\* C34: the step that ends exec calls the export handler exactly when the
\* transaction has exported changes and a handler, with the exported changes as
\* exec leaves them; when the handler raises, exec throws what the handler
\* raised and the frame of the transaction is closed; with exported changes and
\* no handler exec throws an error of its own; and no other step calls the handler
C34_ExportErrors ==
  [][IF pc # "finish" THEN handled' = handled \/ handled' = <<>>
     ELSE IF DOMAIN exportedChanges = {} THEN handled' = handled /\ pc' = "done"
     ELSE IF exportHandler = "none"
     THEN pc' = "threw" /\ error' = NoExportHandler /\ handled' = handled
     ELSE /\ Len(handled') = Len(handled) + 1
          /\ handled'[Len(handled')].given = exportedChanges'
          /\ IF handled'[Len(handled')].outcome = "returned"
             THEN pc' = "done" /\ error' = "none"
             ELSE /\ pc' = "threw"
                  /\ error' = handled'[Len(handled')].outcome
                  /\ <<"Transaction", transaction>> \notin Range(tracer')]_vars

\* exec threw what the export handler raised when it was given an exported change,
\* in a context that has seen a transaction throw for want of a handler
C34_Witness ==
  /\ pc = "threw"
  /\ handled # <<>>
  /\ error = handled[Len(handled)].outcome
  /\ error \in HandlerErrors
  /\ \E b \in DOMAIN handled[Len(handled)].given : handled[Len(handled)].given[b] # <<>>
  /\ \E i \in DOMAIN tracer : tracer[i][1] = "Transaction"

(***************************************************************************)
(* C35: the rounds of the changes the output nodes make                    *)
(***************************************************************************)
\* the changes of a sequence t that a sequence s it extends does not hold
Added(s, t) == {t[i] : i \in (Len(s) + 1)..Len(t)}

\* the changes a block put into the round queues, the commits and the exports of
\* the transaction in a step
Emitting ==
  Added(emitted, emitted') \cup Added(frameCommits, frameCommits')
  \cup Added(framePartialCommits, framePartialCommits')
  \cup UNION {Added(IF b \in DOMAIN exportedChanges THEN exportedChanges[b] ELSE <<>>,
                    exportedChanges'[b]) : b \in DOMAIN exportedChanges'}

C35_LaterResult == \E c \in unit.emitted : c.round = unit.input.round + 2

\* in a transaction, every change a block queues, commits or exports while it
\* runs on a change of round r has a round of r + 1 or later
C35_QueuedLater ==
  [][pc = "blocks" /\ blockIx' = blockIx + 1 => \A c \in Emitting : c.round >= round + 1]_vars

\* a block has queued a change while it ran on a change of round 1
C35_Queued == pc = "blocks" /\ round = 1 /\ \E c \in Range(emitted) : c.round = 2

(***************************************************************************)
(* C36: the queued changes of a frame are all processed                    *)
(***************************************************************************)
\* the changes of round r in the sequence s, in their order
OfRound(s, r) == SelectSeq(s, LAMBDA c : c.round = r)

\* the changes queued were all taken: round by round, the changes run are what the
\* changes queued for the round collapse to, and no other change was run
Drained(queuedChanges, run) ==
  \A r \in {c.round : c \in Range(queuedChanges) \cup Range(run)} :
    collapseMultiplicity(OfRound(queuedChanges, r)).results = OfRound(run, r)

\* C36: when a frame ends with the promotion of its commits, and when the loop of
\* exec ends without having reached a limit, the changes that went through the
\* blocks and into the index in the frame are, round by round, what the changes
\* output put into the round queues in the frame collapse to, whatever the rounds
\* of the input changes of the transaction
C36_NoneLost ==
  [][/\ (frame' = frame + 1 /\ transaction' = transaction) =>
          /\ changeIx' = lastFrame'
          /\ Drained(emitted, SubSeq(inserted', lastFrame + 1, Len(inserted')))
     /\ (pc = "loop" /\ pc' = "finish" /\ diagnostic' = "none") =>
          /\ changeIx = Len(changes)
          /\ Drained(emitted, SubSeq(inserted, lastFrame + 1, Len(inserted)))]_vars

\* the loop of exec has ended on a transaction with input changes of round 0 and of
\* round 1, in which two changes of the round after cancelled out
C36_Witness ==
  /\ program = "staged" /\ pc = "finish" /\ diagnostic = "none"
  /\ \A r \in 0..1 : \E c \in Range(emitted) : c.n = S("input").x /\ c.round = r
  /\ \E r \in 1..2 : /\ OfRound(emitted, r) # <<>>
                     /\ Len(OfRound(inserted, r)) < Len(OfRound(emitted, r))

\* a frame has ended with the promotion of its commits after changes of a later
\* round than 0 went through the blocks
C36_FrameEnded ==
  /\ frame >= 1 /\ lastFrame >= 1
  /\ \E i \in 1..lastFrame : i \in DOMAIN inserted /\ inserted[i].round >= 1

(***************************************************************************)
(* C37: the order of the commits of a frame                                *)
(***************************************************************************)
\* C37 as claimed: collapseCommits makes the same changes of the commits of a frame
\* in whatever order they are given to it
C37_OrderFree == unit.done => unit.regiven = unit.collapsed

\* the commits of every (n, e, a, v) are all inserts or all removes
OneKind(commits) ==
  \A i, j \in DOMAIN commits :
    (commits[i].n = commits[j].n /\ CompareEAV(commits[i], commits[j]) = 0)
      => IsRemoveChange(commits[i]) = IsRemoveChange(commits[j])

\* what holds: the order of the commits makes no difference when no node has
\* committed both an insert and a remove of one triple
OrderFreeOfOneKind == (unit.done /\ OneKind(unit.T.frameCommits)) => unit.regiven = unit.collapsed

\* commits of one kind per node and triple were collapsed in two orders that differ
Reordered ==
  /\ unit.done /\ OneKind(unit.T.frameCommits) /\ unit.given # unit.T.frameCommits
  /\ unit.collapsed # <<>>

(***************************************************************************)
(* C38: the sum of the changes exported for a key                          *)
(***************************************************************************)
\* C38 as claimed: after every transaction, the changes exported so far for an
\* export key add up to 1 when its running count is positive and to 0 when it is
\* not, also when one transaction takes the running count from a positive count to
\* a negative one
C38_SumFollowsCount ==
  pc = "done" =>
    \A beav \in ExportKeys :
      Running(exportSums, beav) = (IF Running(exportIndex, beav) > 0 THEN 1 ELSE 0)

\* what holds of the sums as long as no running count has been negative: the sum is
\* 1 when the running count is positive and 0 when it is 0
SumFollowsCountAboveZero ==
  pc = "done" =>
    \A beav \in ExportKeys \ negative :
      Running(exportSums, beav) = (IF Running(exportIndex, beav) > 0 THEN 1 ELSE 0)

\* a key was exported, retracted and exported again
ExportedAgain ==
  /\ pc = "done" /\ negative = {}
  /\ \E beav \in ExportKeys : Running(exportSums, beav) = 1 /\ Len(inputs) >= 3

(***************************************************************************)
(* C39: the interner stays consistent                                      *)
(***************************************************************************)
\* how often an ID was counted in a tally
TallyOf(tally, id) == IF id \in DOMAIN tally THEN tally[id] ELSE 0

\* the IDs that hold a value
LiveIDs(I) == DOMAIN I.IDs

\* C39: after any sequence of intern and release calls in which no ID is released
\* more often than it was interned, the dictionaries and the array IDs are inverse
\* to each other, the reference count of every ID that holds a value is the number
\* of its interns less the number of its releases and is positive, no ID that holds
\* a value is on the free list, and no ID is on the free list twice
C39_Consistent ==
  LET I == unit.interner
  IN /\ \A raw \in Live(I) : /\ InternerGet(I, raw) \in LiveIDs(I)
                             /\ I.IDs[InternerGet(I, raw)] = raw
     /\ \A id \in LiveIDs(I) : /\ I.IDs[id] \in RawValues
                               /\ InternerGet(I, I.IDs[id]) = id
     /\ \A id \in LiveIDs(I) :
          /\ id \in DOMAIN I.IDRefCount
          /\ I.IDRefCount[id] = TallyOf(unit.interned, id) - TallyOf(unit.released, id)
          /\ I.IDRefCount[id] > 0
     /\ \A i \in DOMAIN I.IDFreeList : I.IDFreeList[i] \notin LiveIDs(I)
     /\ \A i, j \in DOMAIN I.IDFreeList : I.IDFreeList[i] = I.IDFreeList[j] => i = j

\* no ID was released more often than it was interned
C39_Released ==
  \A id \in DOMAIN unit.released : unit.released[id] <= TallyOf(unit.interned, id)

\* an ID that was given up and taken from the free list for another value holds
\* two references, and another ID is on the free list
C39_Witness ==
  LET I == unit.interner
  IN /\ I.IDFreeList # <<>>
     /\ \E id \in LiveIDs(I) : /\ I.IDRefCount[id] = 2
                               /\ TallyOf(unit.released, id) >= 1
                               /\ TallyOf(unit.interned, id) >= 3

(***************************************************************************)
(* C40: the arrivals at a binary join                                      *)
(***************************************************************************)
\* the sum of the counts sent of a prefix, over all rounds
SentOf(counts, h) == Running_At(counts, h, MaxRound)

\* a left and a right prefix join: the keys are equal and the register to merge
\* is undefined on the left or equal on both sides
Joining(l, r) == l[1] = r[1] /\ (l[2] = undefined \/ l[2] = r[2])

\* the joined tuple: the left prefix with the merge register of the right
JoinedTuple(l, r) == <<l[1], r[2], l[3]>>

\* the entries of an intermediate index for the prefix h
EntriesOf(held, h) ==
  IF <<h[1]>> \in DOMAIN held
  THEN {i \in DOMAIN held[<<h[1]>>] : hashPrefix(held[<<h[1]>>][i].prefix) = h}
  ELSE {}

\* C40: the counts of the results a binary join has given for the joined tuple of
\* a left and a right prefix add up to the product of the counts sent of the two,
\* whether they arrived in separate execs, in either order, or in one; tuples of
\* prefixes that do not join are never given; and a prefix whose counts cancel at
\* every round has no entry in the index of its side
C40_Product ==
  /\ \A l \in ArrivalLefts, r \in ArrivalRights :
       Joining(l, r) =>
         (IF JoinedTuple(l, r) \in DOMAIN unit.net THEN unit.net[JoinedTuple(l, r)] ELSE 0)
           = SentOf(unit.lefts, l) * SentOf(unit.rights, r)
  /\ \A t \in DOMAIN unit.net :
       \E l \in ArrivalLefts, r \in ArrivalRights : Joining(l, r) /\ t = JoinedTuple(l, r)
  /\ \A l \in DOMAIN unit.lefts :
       (\A k \in 0..MaxRound : unit.lefts[l][k] = 0) => EntriesOf(unit.state.leftIndex, l) = {}
  /\ \A r \in DOMAIN unit.rights :
       (\A k \in 0..MaxRound : unit.rights[r][k] = 0) => EntriesOf(unit.state.rightIndex, r) = {}

\* a left and a right prefix that join arrived in one exec and gave one result, and
\* a prefix sent before was retracted at its round and has no entry left
C40_Witness ==
  /\ unit.left # <<>> /\ unit.right # <<>>
  /\ Joining(hashPrefix(unit.left), hashPrefix(unit.right))
  /\ \E k \in DOMAIN unit.results :
       hashPrefix(unit.results[k]) = JoinedTuple(hashPrefix(unit.left), hashPrefix(unit.right))
  /\ \E r \in DOMAIN unit.rights : /\ \A k \in 0..MaxRound : unit.rights[r][k] = 0
                                   /\ <<r[1]>> \in DOMAIN unit.state.rightIndex

\* the left arrived in an earlier exec than the right
C40_LeftFirst ==
  /\ unit.left = <<>> /\ unit.right # <<>> /\ unit.results # <<>>

\* the right arrived in an earlier exec than the left
C40_RightFirst ==
  /\ unit.left # <<>> /\ unit.right = <<>> /\ unit.results # <<>>

====
